---- MODULE Spec2Model ----
(***************************************************************************)
(* A model of libscott.  The shapefile decoder (src/src/shapefile.c) is    *)
(* modelled at the byte level: a file is a sequence of bytes 0..255, a     *)
(* FILE* is a position in it, every reader is the operator that the C      *)
(* function computes, and shapefile_parse_cb is a state machine whose      *)
(* steps are the functions it calls.                                       *)
(***************************************************************************)
EXTENDS Integers, Sequences, FiniteSets, TLC

VARIABLES
    platform,       \* the build: which <endian.h> and which CPU (src/src/endian.h)
    lowMemory,      \* TRUE when malloc may return NULL during this run
    shxFile,        \* <prefix>.shx on disk: [exists, bytes]
    shpFile,        \* <prefix>.shp on disk: [exists, bytes]
    cb,             \* the cb argument of shapefile_parse_cb: "NULL" or "consumer"
    reused,         \* TRUE when an earlier call on this session has failed
    shx_f,          \* shapefile->shx.f: "NULL" or "FILE"
    shp_f,          \* shapefile->shp.f: "NULL" or "FILE"
    shpPos,         \* read position of the stream behind shapefile->shp.f
    openFiles,      \* the streams fopen returned and fclose has not yet closed
    header,         \* shapefile->shp.header
    error,          \* shapefile->error
    pc,             \* position inside shapefile_parse_cb
    length,         \* shapefile_parse_shp's remaining-length budget
    success,        \* shapefile_parse_shp's success flag
    stop,           \* shapefile_parse_cb's stop flag
    record_header,  \* shapefile_parse_shp's record_header
    record,         \* shapefile_parse_shp's record: [type, shape]
    liveShapes,     \* number of shapefile_shape_t objects allocated and not freed
    iteration,      \* number of iterations of shapefile_parse_shp's loop begun
    cbLog,          \* the consumer's view: one entry per cb->shape invocation
    result,         \* what shapefile_parse_cb returned: "none", "true", "false"
    fnIn,           \* input of the pure function under test (SpecPure)
    fnOut,          \* its output
    hashEnv,        \* how the hash table is used: [mode, capacity, lowMemory]
    hash,           \* the hash_t: [buckets, valid, size, capacity]
    hashRet,        \* the last hash_* call and what it returned
    hashStored,     \* the [key, data] pairs set and not deleted since
    bufferEnv,      \* how the buffer is used: [mode, lowMemory]
    buffer,         \* the buffer_t: [data, capacity, len, secure, free_memory]
    bufferRet,      \* the last buffer_* call and what it returned
    bufferLog,      \* what was written to the buffer, and whether only written
    queueEnv,       \* how the queue is used: [mode, lowMemory]
    queue,          \* the queue_t: [head, tail, size]
    queueNodes,     \* the queue_node_t objects by address: [data, next, prev, live]
    queueRet,       \* the last queue_* call and what it returned
    queueLog,       \* the values pushed, and the values popped from a non-empty queue
    alistEnv,       \* how the array list is used: [mode]
    alist,          \* the alist_t: [items, capacity]
    alistRet,       \* the last alist_* call and what it returned
    alistLog,       \* the items added, and the items removed, in call order
    lockEnv,        \* how the lock is used: [mode, build]
    lock,           \* the lock_t: the rwlock's [writer, readers], 0 for no thread
    lockThreads     \* what each thread is doing with the lock

parseVars == <<platform, lowMemory, shxFile, shpFile, cb, reused, shx_f, shp_f, shpPos,
               openFiles, header, error, pc, length, success, stop,
               record_header, record, liveShapes, iteration, cbLog, result>>
pureVars == <<fnIn, fnOut>>
hashVars == <<hashEnv, hash, hashRet, hashStored>>
bufferVars == <<bufferEnv, buffer, bufferRet, bufferLog>>
queueVars == <<queueEnv, queue, queueNodes, queueRet, queueLog>>
alistVars == <<alistEnv, alist, alistRet, alistLog>>
lockVars == <<lockEnv, lock, lockThreads>>
libVars == <<queueVars, alistVars, lockVars>>
vars == <<parseVars, pureVars, hashVars, bufferVars, libVars>>

(***************************************************************************)
(* Machine integers.  TLC's integers are 32-bit, so every operator below   *)
(* is written on signed halves and never leaves the int32_t range.         *)
(***************************************************************************)
Pow2(n) == 2 ^ n

\* (int16_t) of an unsigned 16-bit pattern
Int16(u) == IF u >= 32768 THEN u - 65536 ELSE u

\* the unsigned 16-bit pattern of an int: x & 0xFFFF
Low16(x) == x % 65536

\* (int32_t) of the 32-bit pattern whose bytes are b1 (most significant) .. b4
Int32OfBytes(b1, b2, b3, b4) ==
    (IF b1 >= 128 THEN b1 - 256 ELSE b1) * 16777216 + b2 * 65536 + b3 * 256 + b4

\* the budget of line 447 without the header size taken off
Mutant_WrapSub32_keeps_header(x, y) == x

\* x - y computed in unsigned arithmetic and converted back to int32_t, for
\* 0 <= y <= 2^31 - 1: the difference wraps around below INT32_MIN
WrapSub32(x, y) ==
    IF x >= -2147483647 + (y - 1)
    THEN x - y
    ELSE ((x + 2147483647) + 1) + ((2147483647 - y) + 1)

(***************************************************************************)
(* <endian.h> on a little-endian host.  A value read by fread into an      *)
(* integer holds the file's bytes in memory order, least significant       *)
(* first; be..toh swaps them, le..toh returns them unchanged.              *)
(***************************************************************************)
be16toh(data) == Int16(data[1] * 256 + data[2])

be32toh(data) == Int32OfBytes(data[1], data[2], data[3], data[4])

le32toh(data) == Int32OfBytes(data[4], data[3], data[2], data[1])

(***************************************************************************)
(* A double is its 8 bytes in memory order (IEEE 754 binary64, little      *)
(* endian): data[8] holds the sign and the high exponent bits.             *)
(***************************************************************************)
DoubleSign(d) == d[8] \div 128

DoubleExponent(d) == (d[8] % 128) * 16 + d[7] \div 16 - 1023

DoubleZero == <<0, 0, 0, 0, 0, 0, 0, 0>>

\* 2^64 = 0x43F0000000000000
DoubleTwoTo64 == <<0, 0, 0, 0, 0, 0, 240, 67>>

\* the value the C code cannot determine: outside the sampled range
DoubleUnmodelled == <<>>

\* byte b with its n lowest bits cleared
ClearLow(b, n) == IF n <= 0 THEN b ELSE IF n >= 8 THEN 0 ELSE b - (b % Pow2(n))

\* d with the k lowest of its 52 mantissa bits cleared, 0 <= k <= 52
ClearMantissa(d, k) ==
    <<ClearLow(d[1], k), ClearLow(d[2], k - 8), ClearLow(d[3], k - 16),
      ClearLow(d[4], k - 24), ClearLow(d[5], k - 32), ClearLow(d[6], k - 40),
      ClearLow(d[7], k - 48), d[8]>>

Platforms == {"win32", "glibc_x86_64", "glibc_aarch64"}

(***************************************************************************)
(* le64toh applied to a double, as shapefile_read_double_le applies it.    *)
(* win32: src/src/endian.h defines le64toh(x) as (x), the double is        *)
(* returned as it is.  Otherwise <endian.h> is glibc's, whose le64toh is   *)
(* the function __uint64_identity(uint64_t): the double is converted to    *)
(* uint64_t (truncated towards zero) and the result back to double.  The   *)
(* conversion is undefined for a value <= -1, a NaN or a value >= 2^64;    *)
(* x86-64 wraps a negative value around 2^64 (cvttsd2si), AArch64          *)
(* saturates it to 0 (fcvtzu).                                             *)
(***************************************************************************)
le64toh(plat, d) ==
    LET e == DoubleExponent(d) IN
    IF plat = "win32" THEN d
    ELSE IF e < 0 THEN DoubleZero
    ELSE IF DoubleSign(d) = 0 /\ e < 52 THEN ClearMantissa(d, 52 - e)
    ELSE IF DoubleSign(d) = 0 /\ e < 64 THEN d
    ELSE IF DoubleSign(d) = 1 /\ e < 10
         THEN IF plat = "glibc_x86_64" THEN DoubleTwoTo64 ELSE DoubleZero
    ELSE DoubleUnmodelled

(***************************************************************************)
(* shapefile->error.  The text is kept as the format that produced it and  *)
(* its two numeric arguments.  The path of "Error opening" is kept as 0    *)
(* for <prefix>.shx, 1 for <prefix>.shp and 2 for a file of another        *)
(* prefix.                                                                 *)
(***************************************************************************)
Err(kind, a, b) == [kind |-> kind, a |-> a, b |-> b]

NoError == Err("", 0, 0)

\* the message an earlier shapefile_parse_cb call left in the session when the
\* .shx of its path did not exist (lines 394-397); that call leaves every
\* other field as shapefile_init made it
PreviousError == Err("Error opening", 2, 0)

(***************************************************************************)
(* The primitive field readers.  A stream s is what the C readers share:   *)
(*   bytes, pos   the FILE and its position                                *)
(*   counted      whether the length pointer is non-NULL                   *)
(*   length       *length                                                  *)
(*   ok           the reader's return value                                *)
(*   error        shapefile->error                                         *)
(*   data, value  the bytes fread stored and the decoded *value            *)
(*   header       the struct the reader fills: the file header, the record *)
(*                header or the shape                                      *)
(*   allocated    whether the reader allocated a shape                     *)
(*   crashed      whether the reader dereferenced a NULL pointer           *)
(***************************************************************************)
Stream(bytes, pos, counted, len, err) ==
    [bytes |-> bytes, pos |-> pos, counted |-> counted, length |-> len,
     ok |-> TRUE, error |-> err, data |-> <<>>, value |-> 0, header |-> <<>>,
     allocated |-> FALSE, crashed |-> FALSE]

\* F applied to the value of v, with v evaluated once (a C local variable)
Bind(v, F(_)) == CHOOSE y \in {F(x) : x \in {v}} : TRUE

Min(a, b) == IF a < b THEN a ELSE b

\* shapefile_read without the snprintf of line 188
Mutant_shapefile_read_silent(s, len) ==
    Bind(Min(Len(s.bytes) - s.pos, len), LAMBDA count :
        IF count # len
        THEN [s EXCEPT !.pos = s.pos + count, !.ok = FALSE]
        ELSE [s EXCEPT !.pos = s.pos + count, !.ok = TRUE,
                       !.data = SubSeq(s.bytes, s.pos + 1, s.pos + count),
                       !.length = IF s.counted THEN s.length - count ELSE s.length])

\* fread(buf, 1, len, f) returns min(len, bytes left) and advances by as much
shapefile_read(s, len) ==
    Bind(Min(Len(s.bytes) - s.pos, len), LAMBDA count :
        IF count # len
        THEN [s EXCEPT !.pos = s.pos + count, !.ok = FALSE,
                       !.error = Err("Error reading", len, count)]
        ELSE [s EXCEPT !.pos = s.pos + count, !.ok = TRUE,
                       !.data = SubSeq(s.bytes, s.pos + 1, s.pos + count),
                       !.length = IF s.counted THEN s.length - count ELSE s.length])

shapefile_read_int16_be(s) ==
    Bind(shapefile_read(s, 2), LAMBDA r :
        IF r.ok THEN [r EXCEPT !.value = be16toh(r.data)] ELSE r)

shapefile_read_int32_le(s) ==
    Bind(shapefile_read(s, 4), LAMBDA r :
        IF r.ok THEN [r EXCEPT !.value = le32toh(r.data)] ELSE r)

shapefile_read_int32_be(s) ==
    Bind(shapefile_read(s, 4), LAMBDA r :
        IF r.ok THEN [r EXCEPT !.value = be32toh(r.data)] ELSE r)

shapefile_read_double_le(plat, s) ==
    Bind(shapefile_read(s, 8), LAMBDA r :
        IF r.ok THEN [r EXCEPT !.value = le64toh(plat, r.data)] ELSE r)

\* shapefile_read_int32_size_be with the halves taken in the other order (a
\* plain big-endian 32-bit read)
Mutant_read_int32_size_be_high_first(s) ==
    Bind(shapefile_read_int16_be(s), LAMBDA high :
        IF ~high.ok THEN high
        ELSE Bind(shapefile_read_int16_be(high), LAMBDA low :
                IF low.ok
                THEN [low EXCEPT !.value = high.value * 65536 + Low16(low.value)]
                ELSE low))

\* the first int16 read is `low`, the second is `high`;
\* *value = (high << 16) | (low & 0xFFFF)
shapefile_read_int32_size_be(s) ==
    Bind(shapefile_read_int16_be(s), LAMBDA low :
        IF ~low.ok THEN low
        ELSE Bind(shapefile_read_int16_be(low), LAMBDA high :
                IF high.ok
                THEN [high EXCEPT !.value = high.value * 65536 + Low16(low.value)]
                ELSE high))

(***************************************************************************)
(* Shape types (src/src/shapefile.h).                                      *)
(***************************************************************************)
SHAPEFILE_TYPE_NULL == 0
SHAPEFILE_TYPE_POINT == 1
SHAPEFILE_TYPE_POLYGON == 5

ShapeTypes == {0, 1, 3, 5, 8, 11, 13, 15, 18, 21, 23, 25, 28, 31}

shapefile_type_valid(type) == type \in ShapeTypes

SHAPEFILE_HEADER_MAGIC == 9994

SHAPEFILE_HEADER_SIZE == 100

(***************************************************************************)
(* shapefile_read_header.  HeaderLayout is the chain of reads of lines     *)
(* 266-282, in order: the reader of each field and the field it stores.    *)
(* ReadFields is the && chain: a field is read only when every earlier     *)
(* read succeeded, and a field that was read is stored in the header.      *)
(***************************************************************************)
HeaderLayout ==
    << <<"int32_be", "code">>,
       <<"int32_be", "unused0">>, <<"int32_be", "unused1">>,
       <<"int32_be", "unused2">>, <<"int32_be", "unused3">>,
       <<"int32_be", "unused4">>,
       <<"int32_size_be", "length">>,
       <<"int32_le", "version">>,
       <<"int32_le", "type">>,
       <<"double_le", "min_x">>, <<"double_le", "max_x">>,
       <<"double_le", "min_y">>, <<"double_le", "max_y">>,
       <<"double_le", "z_min">>, <<"double_le", "z_max">>,
       <<"double_le", "m_min">>, <<"double_le", "m_max">> >>

HeaderFields == {HeaderLayout[i][2] : i \in 1 .. Len(HeaderLayout)}

IntFields == {"code", "unused0", "unused1", "unused2", "unused3", "unused4",
              "length", "version", "type"}

\* the header of a shapefile_t fresh from calloc: every byte zero
ZeroHeader == [f \in HeaderFields |-> IF f \in IntFields THEN 0 ELSE DoubleZero]

ReadFieldOfKind(plat, kind, s) ==
    CASE kind = "int32_be" -> shapefile_read_int32_be(s)
      [] kind = "int32_le" -> shapefile_read_int32_le(s)
      [] kind = "int32_size_be" -> shapefile_read_int32_size_be(s)
      [] kind = "double_le" -> shapefile_read_double_le(plat, s)

\* one link of the chain: read field i and, if read, store it in the header
ReadField(plat, s, i) ==
    Bind(ReadFieldOfKind(plat, HeaderLayout[i][1], s), LAMBDA r :
        IF r.ok THEN [r EXCEPT !.header[HeaderLayout[i][2]] = r.value] ELSE r)

\* the chain going on to the next read after a read failed (& for &&)
RECURSIVE Mutant_ReadFields_reads_on(_, _, _)
Mutant_ReadFields_reads_on(plat, s0, i) ==
    Bind(s0, LAMBDA s :
        IF i > Len(HeaderLayout) THEN s
        ELSE Mutant_ReadFields_reads_on(plat, ReadField(plat, [s EXCEPT !.ok = TRUE], i),
                                        i + 1))

RECURSIVE ReadFields(_, _, _)
ReadFields(plat, s0, i) ==
    Bind(s0, LAMBDA s :
        IF i > Len(HeaderLayout) \/ ~s.ok THEN s
        ELSE ReadFields(plat, ReadField(plat, s, i), i + 1))

\* header->length < SHAPEFILE_HEADER_SIZE compares an int32_t with a size_t:
\* the length is converted to unsigned, so a negative length is not less
HeaderLengthTooShort(len) == len >= 0 /\ len < SHAPEFILE_HEADER_SIZE

\* shapefile_read_header validating the shape type before the magic number
Mutant_read_header_type_first(plat, bytes, pos, hdr, err) ==
    Bind(ReadFields(plat, [Stream(bytes, pos, FALSE, 0, err) EXCEPT !.header = hdr], 1),
         LAMBDA r :
        IF ~r.ok THEN r
        ELSE IF ~shapefile_type_valid(r.header.type)
             THEN [r EXCEPT !.ok = FALSE,
                     !.error = Err("Header Type is invalid", r.header.type, 0)]
        ELSE IF r.header.code # SHAPEFILE_HEADER_MAGIC
             THEN [r EXCEPT !.ok = FALSE,
                     !.error = Err("Header magic number is invalid", r.header.code, 0)]
        ELSE IF HeaderLengthTooShort(r.header.length)
             THEN [r EXCEPT !.ok = FALSE,
                     !.error = Err("Size in header cannot be less than header size",
                                   r.header.length, SHAPEFILE_HEADER_SIZE)]
        ELSE r)

\* shapefile_read_header validating the length before the shape type
Mutant_read_header_length_first(plat, bytes, pos, hdr, err) ==
    Bind(ReadFields(plat, [Stream(bytes, pos, FALSE, 0, err) EXCEPT !.header = hdr], 1),
         LAMBDA r :
        IF ~r.ok THEN r
        ELSE IF r.header.code # SHAPEFILE_HEADER_MAGIC
             THEN [r EXCEPT !.ok = FALSE,
                     !.error = Err("Header magic number is invalid", r.header.code, 0)]
        ELSE IF HeaderLengthTooShort(r.header.length)
             THEN [r EXCEPT !.ok = FALSE,
                     !.error = Err("Size in header cannot be less than header size",
                                   r.header.length, SHAPEFILE_HEADER_SIZE)]
        ELSE IF ~shapefile_type_valid(r.header.type)
             THEN [r EXCEPT !.ok = FALSE,
                     !.error = Err("Header Type is invalid", r.header.type, 0)]
        ELSE r)

\* The result is the stream after the reads, with ok the return value, header
\* the header struct (hdr with the fields that were read) and error the
\* message; the three validations run in order and only while success holds.
shapefile_read_header(plat, bytes, pos, hdr, err) ==
    Bind(ReadFields(plat, [Stream(bytes, pos, FALSE, 0, err) EXCEPT !.header = hdr], 1),
         LAMBDA r :
        IF ~r.ok THEN r
        ELSE IF r.header.code # SHAPEFILE_HEADER_MAGIC
             THEN [r EXCEPT !.ok = FALSE,
                     !.error = Err("Header magic number is invalid", r.header.code, 0)]
        ELSE IF ~shapefile_type_valid(r.header.type)
             THEN [r EXCEPT !.ok = FALSE,
                     !.error = Err("Header Type is invalid", r.header.type, 0)]
        ELSE IF HeaderLengthTooShort(r.header.length)
             THEN [r EXCEPT !.ok = FALSE,
                     !.error = Err("Size in header cannot be less than header size",
                                   r.header.length, SHAPEFILE_HEADER_SIZE)]
        ELSE r)

(***************************************************************************)
(* Shapes.  A shapefile_shape_t* is modelled with the object it points to: *)
(*   ptr       "uninit" (record.shape never assigned), "NULL", "live",     *)
(*             or "freed" (dangling after shapefile_shape_free)            *)
(*   type      shape->type                                                 *)
(*   geometry  "NULL" or "point": what shape->geometry points to           *)
(*   x, y      the shapefile_shape_point_t                                 *)
(***************************************************************************)
NoShape ==
    [ptr |-> "uninit", type |-> 0, geometry |-> "NULL", x |-> DoubleZero, y |-> DoubleZero]

\* malloc returning NULL (ok = FALSE) gives the NULL shape
shapefile_shape_new(type, ok) ==
    [ptr |-> IF ok THEN "live" ELSE "NULL", type |-> type, geometry |-> "NULL",
     x |-> DoubleZero, y |-> DoubleZero]

\* what malloc may return during this run
AllocOutcomes(low) == IF low THEN {TRUE, FALSE} ELSE {TRUE}

\* reads into s.header, the record header struct; a failing second read
\* leaves the number stored by the first
shapefile_read_shp_record_header(s) ==
    Bind(shapefile_read_int32_be(s), LAMBDA n :
        IF ~n.ok THEN n
        ELSE Bind(shapefile_read_int32_size_be([n EXCEPT !.header.number = n.value]),
                  LAMBDA l : IF l.ok THEN [l EXCEPT !.header.length = l.value] ELSE l))

\* shapefile_read_shp_record_null reading four bytes past its record
Mutant_read_shp_record_null_reads_ahead(s) == shapefile_read(s, 4)

shapefile_read_shp_record_null(s) == s

\* s.header is the shape (record->shape); pointOk is whether malloc succeeds.
\* The result's crashed field is set when record->shape is NULL and is
\* dereferenced by record->shape->geometry = point.
shapefile_read_shp_record_point(plat, s, pointOk) ==
    IF ~pointOk
    THEN [s EXCEPT !.ok = FALSE, !.error = Err("Out of memory", 0, 0)]
    ELSE IF s.header.ptr = "NULL" THEN [s EXCEPT !.ok = FALSE, !.crashed = TRUE]
    ELSE Bind(shapefile_read_double_le(plat, [s EXCEPT !.header.geometry = "point"]),
              LAMBDA x :
            IF ~x.ok THEN x
            ELSE Bind(shapefile_read_double_le(plat, [x EXCEPT !.header.x = x.value]),
                      LAMBDA y : IF y.ok THEN [y EXCEPT !.header.y = y.value] ELSE y))

\* shapefile_shape_free(shape) reads shape->type: a NULL shape crashes
shapefile_shape_free(s) ==
    IF s.header.ptr = "NULL" THEN [s EXCEPT !.crashed = TRUE]
    ELSE [s EXCEPT !.header.ptr = "freed"]

\* shapefile_read_shp_record taking a record of an unsupported type for a
\* record without payload
Mutant_read_shp_record_skips_unsupported(plat, s0, number, shape0, shapeOk, pointOk) ==
    Bind(shapefile_read_int32_le([s0 EXCEPT !.header = shape0]), LAMBDA t :
        IF ~t.ok THEN [t EXCEPT !.value = s0.value]
        ELSE IF ~shapefile_type_valid(t.value)
             THEN [t EXCEPT !.ok = FALSE,
                     !.error = Err("Shape type in record is not valid", t.value, number)]
        ELSE Bind(
            CASE t.value = SHAPEFILE_TYPE_POINT ->
                    shapefile_read_shp_record_point(plat,
                        [t EXCEPT !.header = shapefile_shape_new(t.value, shapeOk),
                                  !.allocated = shapeOk], pointOk)
              [] OTHER ->
                    shapefile_read_shp_record_null(
                        [t EXCEPT !.header = shapefile_shape_new(t.value, shapeOk),
                                  !.allocated = shapeOk]),
            LAMBDA r : [(IF ~r.ok /\ ~r.crashed THEN shapefile_shape_free(r) ELSE r)
                          EXCEPT !.value = t.value]))

\* shapefile_read_shp_record without the shapefile_type_valid test of lines
\* 343-346: a type outside the enumeration gets its shape and matches no case
\* of the switch
Mutant_read_shp_record_no_type_check(plat, s0, number, shape0, shapeOk, pointOk) ==
    Bind(shapefile_read_int32_le([s0 EXCEPT !.header = shape0]), LAMBDA t :
        IF ~t.ok THEN [t EXCEPT !.value = s0.value]
        ELSE Bind(
            CASE t.value = SHAPEFILE_TYPE_NULL ->
                    shapefile_read_shp_record_null(
                        [t EXCEPT !.header = shapefile_shape_new(t.value, shapeOk),
                                  !.allocated = shapeOk])
              [] t.value = SHAPEFILE_TYPE_POINT ->
                    shapefile_read_shp_record_point(plat,
                        [t EXCEPT !.header = shapefile_shape_new(t.value, shapeOk),
                                  !.allocated = shapeOk], pointOk)
              [] OTHER ->
                    [t EXCEPT !.header = shapefile_shape_new(t.value, shapeOk),
                              !.allocated = shapeOk, !.ok = FALSE,
                              !.error = IF shapefile_type_valid(t.value)
                                        THEN Err("Shape type in record is not supported",
                                                 t.value, number)
                                        ELSE t.error],
            LAMBDA r : [(IF ~r.ok /\ ~r.crashed THEN shapefile_shape_free(r) ELSE r)
                          EXCEPT !.value = t.value]))

\* The result is the stream with ok the return value, value the record's
\* type, header the record's shape, allocated whether a shape was allocated
\* and crashed whether a NULL shape was dereferenced.  number is
\* record_header->number, shape0 the old record->shape.
shapefile_read_shp_record(plat, s0, number, shape0, shapeOk, pointOk) ==
    Bind(shapefile_read_int32_le([s0 EXCEPT !.header = shape0]), LAMBDA t :
        IF ~t.ok THEN [t EXCEPT !.value = s0.value]
        ELSE IF ~shapefile_type_valid(t.value)
             THEN [t EXCEPT !.ok = FALSE,
                     !.error = Err("Shape type in record is not valid", t.value, number)]
        ELSE Bind(
            CASE t.value = SHAPEFILE_TYPE_NULL ->
                    shapefile_read_shp_record_null(
                        [t EXCEPT !.header = shapefile_shape_new(t.value, shapeOk),
                                  !.allocated = shapeOk])
              [] t.value = SHAPEFILE_TYPE_POINT ->
                    shapefile_read_shp_record_point(plat,
                        [t EXCEPT !.header = shapefile_shape_new(t.value, shapeOk),
                                  !.allocated = shapeOk], pointOk)
              [] OTHER ->
                    [t EXCEPT !.header = shapefile_shape_new(t.value, shapeOk),
                              !.allocated = shapeOk, !.ok = FALSE,
                              !.error = Err("Shape type in record is not supported",
                                            t.value, number)],
            LAMBDA r : [(IF ~r.ok /\ ~r.crashed THEN shapefile_shape_free(r) ELSE r)
                          EXCEPT !.value = t.value]))

(***************************************************************************)
(* The path prefix of shapefile_parse_cb (lines 505-509).  A C string is   *)
(* the sequence of its characters; a char* into it is an index, 0 for      *)
(* NULL.                                                                   *)
(***************************************************************************)
\* strrchr(s, c): the last occurrence of c in s, or NULL
strrchr(s, c) ==
    IF \E i \in DOMAIN s : s[i] = c
    THEN CHOOSE i \in DOMAIN s : s[i] = c /\ \A j \in DOMAIN s : s[j] = c => j <= i
    ELSE 0

\* path_prefix = strdup(path); ptr = strrchr(path_prefix, '.');
\* if (ptr != NULL) *ptr = '\0';
path_prefix(path) ==
    Bind(strrchr(path, "."), LAMBDA ptr :
        IF ptr # 0 THEN SubSeq(path, 1, ptr - 1) ELSE path)

(***************************************************************************)
(* Writing a file: the encoders that produce the bytes of a field, used    *)
(* to build the input files and to re-encode a decoded header.             *)
(***************************************************************************)
EncodeInt16BE(u) == <<(u \div 256) % 256, u % 256>>

EncodeInt32BE(v) ==
    <<(v \div 16777216) % 256, (v \div 65536) % 256, (v \div 256) % 256, v % 256>>

EncodeInt32LE(v) ==
    <<v % 256, (v \div 256) % 256, (v \div 65536) % 256, (v \div 16777216) % 256>>

\* the split big-endian field: the low 16-bit word first, then the high word
EncodeInt32SizeBE(v) == EncodeInt16BE(v % 65536) \o EncodeInt16BE((v \div 65536) % 65536)

EncodeField(kind, v) ==
    CASE kind = "int32_be" -> EncodeInt32BE(v)
      [] kind = "int32_le" -> EncodeInt32LE(v)
      [] kind = "int32_size_be" -> EncodeInt32SizeBE(v)
      [] kind = "double_le" -> v

RECURSIVE EncodeHeaderFrom(_, _)
EncodeHeaderFrom(h, i) ==
    IF i > Len(HeaderLayout) THEN <<>>
    ELSE EncodeField(HeaderLayout[i][1], h[HeaderLayout[i][2]]) \o EncodeHeaderFrom(h, i + 1)

EncodeHeader(h) == EncodeHeaderFrom(h, 1)

\* the first n bytes of a file
Truncate(bytes, n) == SubSeq(bytes, 1, IF n < Len(bytes) THEN n ELSE Len(bytes))

(***************************************************************************)
(* Sample values the inputs are drawn from.                                *)
(***************************************************************************)
\* 1.5 = 0x3FF8000000000000, -2.25 = 0xC002000000000000, 4.0 = 0x4010000000000000
DoubleOneAndHalf == <<0, 0, 0, 0, 0, 0, 248, 63>>
DoubleMinusTwoAndQuarter == <<0, 0, 0, 0, 0, 0, 2, 192>>
DoubleFour == <<0, 0, 0, 0, 0, 0, 16, 64>>

DoubleSamples == {DoubleZero, DoubleOneAndHalf, DoubleMinusTwoAndQuarter, DoubleFour}

ByteSamples == {0, 1, 2, 128, 255}

\* 9994, 9995, 9994 byte-swapped
MagicSamples == {SHAPEFILE_HEADER_MAGIC, SHAPEFILE_HEADER_MAGIC + 1, 170328064}

\* valid and invalid shape-type tags
TypeSamples == {1, 5, 31, 2, -1}

\* header lengths: the bare header, a header and three Null records, too short,
\* negative, and a length whose high word is not zero
LengthSamples == {100, 136, 99, -1, 6553700}

ReservedSamples == {0, 7}

\* how many bytes of the header the stream holds
HeaderAvailSamples == {100, 99, 26}

MakeHeader(code, unused, len, type, d1, d2) ==
    [f \in HeaderFields |->
        CASE f = "code" -> code
          [] f \in {"unused0", "unused1", "unused2", "unused3", "unused4"} -> unused
          [] f = "length" -> len
          [] f = "version" -> 1000
          [] f = "type" -> type
          [] f = "min_x" -> d1
          [] OTHER -> d2]

\* paths: file.shp, file, dir/file.shp, ./data/file, maps.v2/file,
\* maps.v2/file.shp
PathSamples ==
    {<<"f", "i", "l", "e", ".", "s", "h", "p">>,
     <<"f", "i", "l", "e">>,
     <<"d", "i", "r", "/", "f", "i", "l", "e", ".", "s", "h", "p">>,
     <<".", "/", "d", "a", "t", "a", "/", "f", "i", "l", "e">>,
     <<"m", "a", "p", "s", ".", "v", "2", "/", "f", "i", "l", "e">>,
     <<"m", "a", "p", "s", ".", "v", "2", "/", "f", "i", "l", "e", ".", "s", "h", "p">>}

(***************************************************************************)
(* SpecPure: the pure decoders applied to inputs drawn from the samples.   *)
(***************************************************************************)
NotApplied == [done |-> FALSE]

\* no hash table and no buffer in use
IdleHash ==
    /\ hashEnv = [mode |-> "idle", capacity |-> 0, lowMemory |-> FALSE]
    /\ hash = [buckets |-> <<>>, valid |-> FALSE, size |-> 0, capacity |-> 0]
    /\ hashRet = [op |-> "none"]
    /\ hashStored = {}

IdleBuffer ==
    /\ bufferEnv = [mode |-> "idle", lowMemory |-> FALSE]
    /\ buffer = [data |-> [null |-> TRUE, bytes |-> <<>>], capacity |-> 0, len |-> 0,
                 secure |-> FALSE, free_memory |-> FALSE]
    /\ bufferRet = [op |-> "none"]
    /\ bufferLog = [written |-> <<>>, onlyWrites |-> TRUE, total |-> 0]

IdleQueue ==
    /\ queueEnv = [mode |-> "idle", lowMemory |-> FALSE]
    /\ queue = [head |-> 0, tail |-> 0, size |-> 0]
    /\ queueNodes = <<>>
    /\ queueRet = [op |-> "none"]
    /\ queueLog = [pushed |-> <<>>, popped |-> <<>>, returned |-> <<>>]

IdleAlist ==
    /\ alistEnv = [mode |-> "idle"]
    /\ alist = [items |-> <<>>, capacity |-> 0]
    /\ alistRet = [op |-> "none"]
    /\ alistLog = [added |-> <<>>, removed |-> <<>>, onlyFront |-> TRUE]

IdleLock ==
    /\ lockEnv = [mode |-> "idle", build |-> "posix"]
    /\ lock = [writer |-> 0, readers |-> {}]
    /\ lockThreads = <<>>

IdleLib == IdleQueue /\ IdleAlist /\ IdleLock

IdleParse ==
    /\ platform = "win32"
    /\ lowMemory = FALSE
    /\ shxFile = [exists |-> FALSE, bytes |-> <<>>]
    /\ shpFile = [exists |-> FALSE, bytes |-> <<>>]
    /\ cb = "NULL"
    /\ reused = FALSE
    /\ shx_f = "NULL"
    /\ shp_f = "NULL"
    /\ shpPos = 0
    /\ openFiles = {}
    /\ header = ZeroHeader
    /\ error = NoError
    /\ pc = "idle"
    /\ length = 0
    /\ success = FALSE
    /\ stop = FALSE
    /\ record_header = [number |-> 0, length |-> 0]
    /\ record = [type |-> 0, shape |-> NoShape]
    /\ liveShapes = 0
    /\ iteration = 0
    /\ cbLog = <<>>
    /\ result = "none"

PureInitSize ==
    \E b1 \in ByteSamples, b2 \in ByteSamples, b3 \in ByteSamples, b4 \in ByteSamples,
       n \in 0 .. 4 :
        fnIn = [op |-> "shapefile_read_int32_size_be",
                bytes |-> Truncate(<<b1, b2, b3, b4>>, n)]

PureInitHeader ==
    \E plat \in Platforms, code \in MagicSamples, unused \in ReservedSamples,
       len \in LengthSamples, type \in TypeSamples,
       d1 \in DoubleSamples, d2 \in {DoubleZero, DoubleOneAndHalf}, avail \in HeaderAvailSamples :
        LET h == MakeHeader(code, unused, len, type, d1, d2)
        IN  fnIn = [op |-> "shapefile_read_header", plat |-> plat, fields |-> h,
                    bytes |-> Truncate(EncodeHeader(h), avail)]

PureInitPath == \E path \in PathSamples : fnIn = [op |-> "path_prefix", path |-> path]

PureInit ==
    /\ IdleParse
    /\ IdleHash
    /\ IdleBuffer
    /\ IdleLib
    /\ fnOut = NotApplied
    /\ (PureInitSize \/ PureInitHeader \/ PureInitPath)

ApplyReadInt32SizeBE ==
    /\ fnIn.op = "shapefile_read_int32_size_be"
    /\ ~fnOut.done
    /\ \E r \in {shapefile_read_int32_size_be(Stream(fnIn.bytes, 0, FALSE, 0, NoError))} :
         fnOut' = [done |-> TRUE, ok |-> r.ok, value |-> r.value, pos |-> r.pos,
                   error |-> r.error]
    /\ UNCHANGED <<parseVars, fnIn, hashVars, bufferVars, libVars>>

ApplyReadHeader ==
    /\ fnIn.op = "shapefile_read_header"
    /\ ~fnOut.done
    /\ \E r \in {shapefile_read_header(fnIn.plat, fnIn.bytes, 0, ZeroHeader, NoError)} :
         fnOut' = [done |-> TRUE, ok |-> r.ok, header |-> r.header, pos |-> r.pos,
                   error |-> r.error]
    /\ UNCHANGED <<parseVars, fnIn, hashVars, bufferVars, libVars>>

ApplyPathPrefix ==
    /\ fnIn.op = "path_prefix"
    /\ ~fnOut.done
    /\ fnOut' = [done |-> TRUE, prefix |-> path_prefix(fnIn.path)]
    /\ UNCHANGED <<parseVars, fnIn, hashVars, bufferVars, libVars>>

PureNext == ApplyReadInt32SizeBE \/ ApplyReadHeader \/ ApplyPathPrefix

SpecPure == PureInit /\ [][PureNext]_vars

(***************************************************************************)
(* The input files of a parse.  A .shp file is a header followed by        *)
(* records; a record is its number (32-bit BE), its content length in      *)
(* 16-bit words (split BE), its shape type (32-bit LE) and its payload.    *)
(***************************************************************************)
MaxRecords == 3

\* a shape type outside the enumeration
InvalidTag == SHAPEFILE_TYPE_POINT + 1

RecordTags == {SHAPEFILE_TYPE_NULL, SHAPEFILE_TYPE_POINT, SHAPEFILE_TYPE_POLYGON, InvalidTag}

\* the fixture point (x = 1.5, y = -2.25); other records carry no payload
TagPayload(tag) ==
    IF tag = SHAPEFILE_TYPE_POINT THEN DoubleOneAndHalf \o DoubleMinusTwoAndQuarter ELSE <<>>

EncodeRecord(tag, number) ==
    EncodeInt32BE(number) \o EncodeInt32SizeBE((4 + Len(TagPayload(tag))) \div 2)
        \o EncodeInt32LE(tag) \o TagPayload(tag)

RECURSIVE EncodeRecords(_, _)
EncodeRecords(tags, i) ==
    IF i > Len(tags) THEN <<>>
    ELSE EncodeRecord(tags[i], i) \o EncodeRecords(tags, i + 1)

RecordSeqs == UNION {[1 .. n -> RecordTags] : n \in 0 .. MaxRecords}

\* what is wrong with the file: nothing; the header declares 4 bytes more or
\* 4 bytes less than the file holds; the file lacks its last 2 or 6 bytes
Defects == {"none", "over", "under", "cut2", "cut6"}

DeclaredLength(body, defect) ==
    SHAPEFILE_HEADER_SIZE + Len(body)
        + (CASE defect = "over" -> 4 [] defect = "under" -> -4 [] OTHER -> 0)

CutOf(defect) == CASE defect = "cut2" -> 2 [] defect = "cut6" -> 6 [] OTHER -> 0

ShpOf(code, type, len, body, cut) ==
    [exists |-> TRUE,
     bytes |-> Truncate(
         EncodeHeader(MakeHeader(code, 0, len, type, DoubleOneAndHalf, DoubleZero)) \o body,
         SHAPEFILE_HEADER_SIZE + Len(body) - cut)]

\* a file of the given records with the given defect
ShpFileOf(tags, defect) ==
    ShpOf(SHAPEFILE_HEADER_MAGIC, SHAPEFILE_TYPE_POINT,
          DeclaredLength(EncodeRecords(tags, 1), defect),
          EncodeRecords(tags, 1), CutOf(defect))

\* a Null record followed by a record of each type the decoder does not support
UnsupportedFiles ==
    {ShpFileOf(<<SHAPEFILE_TYPE_NULL, type>>, "none") :
        type \in ShapeTypes \ {SHAPEFILE_TYPE_NULL, SHAPEFILE_TYPE_POINT}}

NoFile == [exists |-> FALSE, bytes |-> <<>>]

\* files whose header is wrong: magic, shape type, a negative length, a
\* length that wraps to a positive budget; and no file at all
BadHeaderFiles ==
    {ShpOf(code, SHAPEFILE_TYPE_POINT, 112, EncodeRecords(<<SHAPEFILE_TYPE_NULL>>, 1), 0) :
        code \in MagicSamples \ {SHAPEFILE_HEADER_MAGIC}}
    \cup {ShpOf(SHAPEFILE_HEADER_MAGIC, 2, 112, EncodeRecords(<<SHAPEFILE_TYPE_NULL>>, 1), 0),
          ShpOf(SHAPEFILE_HEADER_MAGIC, SHAPEFILE_TYPE_POINT, -1,
                EncodeRecords(<<SHAPEFILE_TYPE_NULL>>, 1), 0),
          ShpOf(SHAPEFILE_HEADER_MAGIC, SHAPEFILE_TYPE_POINT, -2147483600,
                EncodeRecords(<<SHAPEFILE_TYPE_NULL>>, 1), 0),
          NoFile}

\* a file of the given records whose header declares its length in 16-bit
\* words, as the file format has it
WordFileOf(tags) ==
    ShpOf(SHAPEFILE_HEADER_MAGIC, SHAPEFILE_TYPE_POINT,
          (SHAPEFILE_HEADER_SIZE + Len(EncodeRecords(tags, 1))) \div 2,
          EncodeRecords(tags, 1), 0)

\* such files: one Null record (12 bytes, 56 words declared) and four Point
\* records (112 bytes, 106 words declared)
WordFiles ==
    {WordFileOf(<<SHAPEFILE_TYPE_NULL>>),
     WordFileOf(<<SHAPEFILE_TYPE_POINT, SHAPEFILE_TYPE_POINT, SHAPEFILE_TYPE_POINT,
                  SHAPEFILE_TYPE_POINT>>)}

\* a record whose header declares `words` 16-bit words of content whatever
\* its content is
EncodeRecordDeclaring(tag, number, words) ==
    EncodeInt32BE(number) \o EncodeInt32SizeBE(words) \o EncodeInt32LE(tag) \o TagPayload(tag)

\* files of one record whose declared content length is not that of its
\* content: a Null record declaring the 10 words of a Point, a Point record
\* declaring the 2 words of a Null
MisdeclaredFiles ==
    {ShpOf(SHAPEFILE_HEADER_MAGIC, SHAPEFILE_TYPE_POINT,
           SHAPEFILE_HEADER_SIZE + Len(EncodeRecordDeclaring(tag, 1, words)),
           EncodeRecordDeclaring(tag, 1, words), 0) :
        <<tag, words>> \in {<<SHAPEFILE_TYPE_NULL, (4 + 16) \div 2>>,
                            <<SHAPEFILE_TYPE_POINT, 4 \div 2>>}}

GoodShx == ShpOf(SHAPEFILE_HEADER_MAGIC, SHAPEFILE_TYPE_POINT, 100, <<>>, 0)

\* the build, whether malloc may fail, and the cb argument
Environments ==
    {[platform |-> "win32", lowMemory |-> FALSE, cb |-> "consumer"],
     [platform |-> "glibc_x86_64", lowMemory |-> FALSE, cb |-> "consumer"],
     [platform |-> "glibc_aarch64", lowMemory |-> FALSE, cb |-> "consumer"],
     [platform |-> "glibc_x86_64", lowMemory |-> TRUE, cb |-> "consumer"],
     [platform |-> "glibc_x86_64", lowMemory |-> FALSE, cb |-> "NULL"]}

(***************************************************************************)
(* Spec: one session, from shapefile_init to shapefile_free.               *)
(***************************************************************************)
Init ==
    /\ \E env \in Environments :
        /\ platform = env.platform
        /\ lowMemory = env.lowMemory
        /\ cb = env.cb
    /\ \/ /\ shxFile = GoodShx
          /\ \/ \E tags \in RecordSeqs, defect \in Defects :
                    shpFile = ShpFileOf(tags, defect)
             \/ shpFile \in BadHeaderFiles
             \/ shpFile \in UnsupportedFiles
             \/ shpFile \in WordFiles
             \/ shpFile \in MisdeclaredFiles
       \/ /\ shxFile \in BadHeaderFiles
          /\ shpFile = ShpFileOf(<<SHAPEFILE_TYPE_NULL>>, "none")
    \* shapefile_init: calloc zeroes the session; an earlier call that could
    \* not open its .shx has left its message and nothing else
    /\ reused \in BOOLEAN
    /\ error = IF reused THEN PreviousError ELSE NoError
    /\ shx_f = "NULL"
    /\ shp_f = "NULL"
    /\ shpPos = 0
    /\ openFiles = {}
    /\ header = ZeroHeader
    /\ pc = "parse_shx"
    /\ length = 0
    /\ success = FALSE
    /\ stop = FALSE
    /\ record_header = [number |-> 0, length |-> 0]
    /\ record = [type |-> 0, shape |-> NoShape]
    /\ liveShapes = 0
    /\ iteration = 0
    /\ cbLog = <<>>
    /\ result = "none"
    /\ fnIn = [op |-> "none"]
    /\ fnOut = NotApplied
    /\ IdleHash
    /\ IdleBuffer
    /\ IdleLib

inputVars == <<platform, lowMemory, shxFile, shpFile, cb, reused>>
loopVars == <<length, success, record_header, record, liveShapes, iteration>>

\* shapefile_parse_cb going on to shapefile_parse_shp after shapefile_parse_shx
\* failed (& replaced by an unconditional sequence in line 513)
Mutant_ShxFailed_continues(err) ==
    /\ error' = err
    /\ pc' = "parse_shp"
    /\ UNCHANGED <<shx_f, openFiles, result>>

\* shapefile_parse_cb returning false after shapefile_parse_shx failed
ShxFailed(err) ==
    /\ error' = err
    /\ pc' = "returned"
    /\ result' = "false"
    /\ UNCHANGED <<shx_f, openFiles>>

\* shapefile_parse_cb up to the return of shapefile_parse_shx (lines 505-513)
ParseShx ==
    /\ pc = "parse_shx"
    /\ stop' = FALSE
    /\ \E dupOk \in AllocOutcomes(lowMemory), pathOk \in AllocOutcomes(lowMemory) :
        IF ~dupOk
        THEN \* strdup returned NULL and strrchr reads it
             /\ pc' = "crashed"
             /\ UNCHANGED <<shx_f, openFiles, error, result>>
        ELSE IF ~pathOk THEN ShxFailed(Err("Out of memory", 0, 0))
        ELSE IF ~shxFile.exists THEN ShxFailed(Err("Error opening", 0, 0))
        ELSE \E r \in {shapefile_read_header(platform, shxFile.bytes, 0, ZeroHeader, error)} :
                IF ~r.ok
                THEN \* fclose(shapefile->shx.f) leaves no stream open
                     ShxFailed(r.error)
                ELSE /\ shx_f' = "FILE"
                     /\ openFiles' = openFiles \cup {"shx"}
                     /\ pc' = "parse_shp"
                     /\ UNCHANGED <<error, result>>
    /\ UNCHANGED <<inputVars, loopVars, shp_f, shpPos, header, cbLog, pureVars, hashVars,
                   bufferVars, libVars>>

\* shapefile_parse_shp up to its loop (lines 430-447)
ParseShpOpen ==
    /\ pc = "parse_shp"
    /\ \E pathOk \in AllocOutcomes(lowMemory) :
        IF ~pathOk
        THEN \* return false, past the cleanup at the end of the function
             /\ error' = Err("Out of memory", 0, 0)
             /\ pc' = "returned"
             /\ result' = "false"
             /\ UNCHANGED <<shp_f, shpPos, openFiles, header, length, success>>
        ELSE IF ~shpFile.exists
        THEN /\ error' = Err("Error opening", 1, 0)
             /\ success' = FALSE
             /\ pc' = "exit"
             /\ UNCHANGED <<shp_f, shpPos, openFiles, header, length, result>>
        ELSE \E r \in {shapefile_read_header(platform, shpFile.bytes, 0, header, error)} :
                /\ shp_f' = "FILE"
                /\ openFiles' = openFiles \cup {"shp"}
                /\ shpPos' = r.pos
                /\ header' = r.header
                /\ error' = r.error
                /\ success' = r.ok
                /\ length' = IF r.ok THEN WrapSub32(r.header.length, SHAPEFILE_HEADER_SIZE)
                                     ELSE length
                /\ pc' = IF r.ok THEN "loop" ELSE "exit"
                /\ UNCHANGED result
    /\ UNCHANGED <<inputVars, shx_f, stop, record_header, record, liveShapes, iteration,
                   cbLog, pureVars, hashVars,
                   bufferVars, libVars>>

\* the loop of line 449 without its test of *stop
Mutant_LoopCondition_ignores_stop == success /\ length > 0

\* while (success && !*stop && length > 0)
LoopCondition == success /\ ~stop /\ length > 0

\* the loop test and shapefile_read_shp_record_header (lines 449-453)
ReadRecordHeader ==
    /\ pc = "loop"
    /\ LoopCondition
    /\ \E r \in {shapefile_read_shp_record_header(
                    [Stream(shpFile.bytes, shpPos, TRUE, length, error)
                        EXCEPT !.header = record_header])} :
        /\ shpPos' = r.pos
        /\ length' = r.length
        /\ error' = r.error
        /\ record_header' = r.header
        /\ success' = r.ok
        /\ pc' = IF r.ok THEN "record" ELSE "exit"
    /\ iteration' = iteration + 1
    /\ UNCHANGED <<inputVars, shx_f, shp_f, openFiles, header, stop, record, liveShapes,
                   cbLog, result, pureVars, hashVars,
                   bufferVars, libVars>>

\* shapefile_read_shp_record's caller without the break of line 458
Mutant_AfterRecord_no_break(ok) == "callback"

\* if (!success) break; (lines 456-459)
AfterRecord(ok) == IF ok THEN "callback" ELSE "exit"

\* shapefile_read_shp_record (lines 455-459)
ReadRecord ==
    /\ pc = "record"
    /\ \E shapeOk \in AllocOutcomes(lowMemory), pointOk \in AllocOutcomes(lowMemory) :
        \E r \in {shapefile_read_shp_record(platform,
                     [Stream(shpFile.bytes, shpPos, TRUE, length, error)
                        EXCEPT !.value = record.type],
                     record_header.number, record.shape, shapeOk, pointOk)} :
            /\ shpPos' = r.pos
            /\ length' = r.length
            /\ error' = r.error
            /\ record' = [type |-> r.value, shape |-> r.header]
            /\ liveShapes' = liveShapes
                                + (IF r.allocated /\ r.header.ptr = "live" THEN 1 ELSE 0)
            /\ success' = IF r.crashed THEN success ELSE r.ok
            /\ pc' = IF r.crashed THEN "crashed" ELSE AfterRecord(r.ok)
    /\ UNCHANGED <<inputVars, shx_f, shp_f, openFiles, header, stop, record_header,
                   iteration, cbLog, result, pureVars, hashVars,
                   bufferVars, libVars>>

\* the consumer's call and the release of the shape (lines 461-469)
Callback ==
    /\ pc = "callback"
    /\ IF cb = "NULL"
       THEN /\ pc' = "loop"
            /\ UNCHANGED <<stop, record, liveShapes, cbLog>>
       ELSE \E ret \in BOOLEAN :
            /\ cbLog' = Append(cbLog, [shape |-> record.shape, pos |-> shpPos,
                                       number |-> record_header.number, ret |-> ret])
            /\ stop' = ~ret
            /\ IF record.shape.ptr = "NULL"
               THEN \* shapefile_shape_free(NULL)
                    /\ pc' = "crashed"
                    /\ UNCHANGED <<record, liveShapes>>
               ELSE /\ record' = [record EXCEPT !.shape.ptr = "freed"]
                    /\ liveShapes' = liveShapes - 1
                    /\ pc' = "loop"
    /\ UNCHANGED <<inputVars, shx_f, shp_f, shpPos, openFiles, header, error, length,
                   success, record_header, iteration, result, pureVars, hashVars,
                   bufferVars, libVars>>

\* the end of shapefile_parse_shp and of shapefile_parse_cb (lines 473-482, 516-517)
ParseShpReturn ==
    /\ pc = "exit" \/ (pc = "loop" /\ ~LoopCondition)
    /\ IF ~success /\ shx_f # "NULL"
       THEN /\ openFiles' = openFiles \ {"shx"}
            /\ shx_f' = "NULL"
       ELSE UNCHANGED <<openFiles, shx_f>>
    /\ result' = IF success THEN "true" ELSE "false"
    /\ pc' = "returned"
    /\ UNCHANGED <<inputVars, loopVars, shp_f, shpPos, header, error, stop, cbLog,
                   pureVars, hashVars,
                   bufferVars, libVars>>

\* shapefile_free: free(shapefile), which closes nothing
Free ==
    /\ pc = "returned"
    /\ pc' = "freed"
    /\ shx_f' = "NULL"
    /\ shp_f' = "NULL"
    /\ UNCHANGED <<inputVars, loopVars, shpPos, openFiles, header, error, stop, cbLog,
                   result, pureVars, hashVars,
                   bufferVars, libVars>>

Next ==
    \/ ParseShx
    \/ ParseShpOpen
    \/ ReadRecordHeader
    \/ ReadRecord
    \/ Callback
    \/ ParseShpReturn
    \/ Free

Spec == Init /\ [][Next]_vars

(***************************************************************************)
(* Claims about a parse (checked under Spec).                              *)
(***************************************************************************)
Returned == pc \in {"returned", "freed"}

\* the consumer returned true every time it was called
ConsumerSaidContinue == \A i \in DOMAIN cbLog : cbLog[i].ret

\* a consumer is given and no allocation fails
Nominal == cb = "consumer" /\ ~lowMemory

Nulls(n) == [i \in 1 .. n |-> SHAPEFILE_TYPE_NULL]

\* C1: for a .shp file of exactly n Null records whose header length is the
\* 100 header bytes plus the 12 bytes of each record, a valid .shx and a
\* consumer that always returns true, the consumer is invoked exactly n times,
\* for records 1..n in that order, and shapefile_parse_cb returns true.
C1_NullRecords ==
    \A n \in 0 .. MaxRecords :
        (Returned /\ Nominal /\ ConsumerSaidContinue /\ shxFile = GoodShx
            /\ shpFile = ShpFileOf(Nulls(n), "none")) =>
            /\ result = "true"
            /\ Len(cbLog) = n
            /\ \A i \in 1 .. n :
                /\ cbLog[i].number = i
                /\ cbLog[i].shape.ptr = "live"
                /\ cbLog[i].shape.type = SHAPEFILE_TYPE_NULL
                /\ cbLog[i].pos = SHAPEFILE_HEADER_SIZE + 12 * i

C1_Witness ==
    /\ pc = "freed"
    /\ Nominal
    /\ shpFile = ShpFileOf(Nulls(2), "none")
    /\ Len(cbLog) = 2
    /\ ConsumerSaidContinue
    /\ result = "true"

\* C2: once the consumer's k-th invocation has returned false there are exactly
\* k invocations, and the .shp stream stays where it was at that invocation.
C2_StopAfterK ==
    \A k \in DOMAIN cbLog :
        ~cbLog[k].ret => (Len(cbLog) = k /\ shpPos = cbLog[k].pos)

\* stopped at the second of three records, with budget left
C2_Witness ==
    /\ pc = "freed"
    /\ Len(cbLog) = 2
    /\ ~cbLog[2].ret
    /\ length > 0
    /\ shpPos < Len(shpFile.bytes)

\* C3: once a record's tag is a valid type other than Null and Point the parse
\* has failed with the not-supported error for that record, the consumer was
\* invoked for earlier records only, and shapefile_parse_cb returns false.
C3_Unsupported ==
    (record.type \in ShapeTypes \ {SHAPEFILE_TYPE_NULL, SHAPEFILE_TYPE_POINT}
        /\ ~lowMemory) =>
        /\ pc \in {"exit", "returned", "freed"}
        /\ ~success
        /\ error = Err("Shape type in record is not supported", record.type,
                       record_header.number)
        /\ Len(cbLog) < iteration
        /\ \A i \in DOMAIN cbLog : cbLog[i].number < record_header.number
        /\ (Returned => result = "false")

C3_Witness ==
    /\ pc = "freed"
    /\ record.type = SHAPEFILE_TYPE_POLYGON
    /\ record_header.number = 2
    /\ Len(cbLog) = 1
    /\ length > 0
    /\ result = "false"

\* C4: a file of one Point record (1.5, -2.25) delivers one Point shape with
\* exactly these coordinates, and the parse succeeds.
C4_PointExact ==
    (Returned /\ Nominal /\ ConsumerSaidContinue /\ shxFile = GoodShx
        /\ shpFile = ShpFileOf(<<SHAPEFILE_TYPE_POINT>>, "none")) =>
        /\ result = "true"
        /\ Len(cbLog) = 1
        /\ cbLog[1].shape.type = SHAPEFILE_TYPE_POINT
        /\ cbLog[1].shape.geometry = "point"
        /\ cbLog[1].shape.x = DoubleOneAndHalf
        /\ cbLog[1].shape.y = DoubleMinusTwoAndQuarter

\* C9: after shapefile_parse_cb has returned and shapefile_free was called, no
\* stream the session opened is still open.
C9_HandlesClosed == pc = "freed" => openFiles = {}

\* the parse failed inside a record
FailedInRecord == ~success /\ iteration >= 1 /\ pc \in {"exit", "returned", "freed"}

\* where the i-th delivered record starts in the .shp file
RecordStart(i) == IF i = 1 THEN SHAPEFILE_HEADER_SIZE ELSE cbLog[i - 1].pos

\* the i-th invocation delivered the record that follows the (i-1)-th one
DeliveredInOrder(i) ==
    LET start == RecordStart(i)
        tag == le32toh(SubSeq(shpFile.bytes, start + 9, start + 12))
    IN  /\ cbLog[i].number = be32toh(SubSeq(shpFile.bytes, start + 1, start + 4))
        /\ cbLog[i].shape.type = tag
        /\ cbLog[i].pos = start + 12 + (IF tag = SHAPEFILE_TYPE_POINT THEN 16 ELSE 0)
        /\ cbLog[i].ret

AfterFailure ==
    /\ Len(cbLog) = iteration - 1
    /\ \A i \in DOMAIN cbLog : DeliveredInOrder(i)
    /\ (Returned => result = "false")

\* C10: when decoding has failed in the k-th record the consumer was invoked
\* once for each of the records 1..k-1, in order; from then on it is not
\* invoked, no byte is read, and shapefile_parse_cb returns false.
C10_FailStop ==
    [][(FailedInRecord' /\ Nominal) =>
          /\ AfterFailure'
          /\ (FailedInRecord => (cbLog' = cbLog /\ shpPos' = shpPos))]_vars

\* a short read in the third record, after two deliveries
C10_Witness ==
    /\ FailedInRecord
    /\ Nominal
    /\ pc = "freed"
    /\ iteration = 3
    /\ Len(cbLog) = 2
    /\ error.kind = "Error reading"
    /\ result = "false"

\* the file the failing call was reading: the .shp once it was opened
FileAtFault == IF "shp" \in openFiles THEN shpFile ELSE shxFile

\* the message e says what went wrong in this call
Describes(e) ==
    CASE e.kind = "Out of memory" -> lowMemory
      [] e.kind = "Error opening" ->
            \/ e.a = 0 /\ ~shxFile.exists /\ openFiles = {}
            \/ e.a = 1 /\ ~shpFile.exists /\ "shp" \notin openFiles
      [] e.kind = "Error reading" ->
            \* the stream at fault held b bytes, fewer than the a asked for
            /\ e.b < e.a
            /\ IF "shp" \in openFiles
               THEN shpPos = Len(shpFile.bytes)
               ELSE Len(shxFile.bytes) < SHAPEFILE_HEADER_SIZE
      [] e.kind = "Header magic number is invalid" ->
            /\ e.a # SHAPEFILE_HEADER_MAGIC
            /\ e.a = be32toh(SubSeq(FileAtFault.bytes, 1, 4))
            /\ iteration = 0
      [] e.kind = "Header Type is invalid" ->
            /\ e.a \notin ShapeTypes
            /\ e.a = le32toh(SubSeq(FileAtFault.bytes, 33, 36))
            /\ iteration = 0
      [] e.kind = "Size in header cannot be less than header size" ->
            /\ e.a < SHAPEFILE_HEADER_SIZE
            /\ e.b = SHAPEFILE_HEADER_SIZE
            /\ iteration = 0
      [] e.kind = "Shape type in record is not valid" ->
            /\ e.a \notin ShapeTypes
            /\ e.a = record.type
            /\ e.b = record_header.number
      [] e.kind = "Shape type in record is not supported" ->
            /\ e.a \in ShapeTypes \ {SHAPEFILE_TYPE_NULL, SHAPEFILE_TYPE_POINT}
            /\ e.a = record.type
            /\ e.b = record_header.number
      [] OTHER -> FALSE

\* C11: when shapefile_parse_cb has returned false the session's message is
\* neither empty nor the one an earlier call left: it was written by this call
\* and says what failed, on every failing path.
C11_ErrorWritten ==
    result = "false" =>
        /\ error \notin {NoError, PreviousError}
        /\ Describes(error)

\* a short read in a record, on a session that held an earlier call's message
C11_Witness ==
    /\ result = "false"
    /\ reused
    /\ iteration = 2
    /\ error.kind = "Error reading"
    /\ shpPos = Len(shpFile.bytes)

\* the bytes of the n-th record the loop has got to start where the (n-1)-th
\* delivered record ended
StartOfRecord(n) == IF n = 1 THEN SHAPEFILE_HEADER_SIZE ELSE cbLog[n - 1].pos

\* where the record that starts at start ends: after its 8-byte header, its
\* type and, for a Point, its two doubles
EndOfRecord(start) ==
    start + 12
        + (IF le32toh(SubSeq(shpFile.bytes, start + 9, start + 12)) = SHAPEFILE_TYPE_POINT
           THEN 16 ELSE 0)

\* the i-th invocation got the live shape decoded from the i-th record on
\* disk, with the stream at the end of that record
DeliveredRecord(i) ==
    LET start == StartOfRecord(i)
        tag == le32toh(SubSeq(shpFile.bytes, start + 9, start + 12))
    IN  /\ cbLog[i].number = be32toh(SubSeq(shpFile.bytes, start + 1, start + 4))
        /\ cbLog[i].shape.ptr = "live"
        /\ cbLog[i].shape.type = tag
        /\ cbLog[i].pos = EndOfRecord(start)
        /\ IF tag = SHAPEFILE_TYPE_POINT
           THEN /\ cbLog[i].shape.geometry = "point"
                /\ cbLog[i].shape.x =
                     le64toh(platform, SubSeq(shpFile.bytes, start + 13, start + 20))
                /\ cbLog[i].shape.y =
                     le64toh(platform, SubSeq(shpFile.bytes, start + 21, start + 28))
           ELSE cbLog[i].shape.geometry = "NULL"

\* C14: with a consumer given and allocations succeeding, the k-th invocation
\* receives the shape decoded from the k-th record on disk; at most one shape
\* exists at a time, and it exists only from its decoding to the return of
\* its callback; while the callback for record k is pending the stream stands
\* at the end of record k.
C14_OneAtATime ==
    Nominal =>
        /\ \A i \in DOMAIN cbLog : DeliveredRecord(i)
        /\ liveShapes = (IF pc = "callback" THEN 1 ELSE 0)
        /\ pc = "callback" =>
            /\ record.shape.ptr = "live"
            /\ Len(cbLog) = iteration - 1
            /\ shpPos = EndOfRecord(StartOfRecord(iteration))

\* a Null, a Point and a Null record, all delivered
C14_Witness ==
    /\ pc = "freed"
    /\ Nominal
    /\ shpFile = ShpFileOf(<<SHAPEFILE_TYPE_NULL, SHAPEFILE_TYPE_POINT, SHAPEFILE_TYPE_NULL>>,
                           "none")
    /\ Len(cbLog) = 3
    /\ cbLog[2].shape.type = SHAPEFILE_TYPE_POINT
    /\ cbLog[3].pos = Len(shpFile.bytes)
    /\ result = "true"

\* C15: when shapefile_parse_cb has returned, every shape constructed during
\* the call has been released, whatever cb was, and none was released twice.
C15_ShapesReleased ==
    Returned => (liveShapes = 0 /\ record.shape.ptr # "live")

\* the file exists, holds the 100 bytes of a header, and the three fields the
\* decoder validates pass: the magic number in bytes 1..4, the length in
\* bytes 25..28 (low word first) and the shape type in bytes 33..36
HeaderAccepted(file) ==
    /\ file.exists
    /\ Len(file.bytes) >= SHAPEFILE_HEADER_SIZE
    /\ be32toh(SubSeq(file.bytes, 1, 4)) = SHAPEFILE_HEADER_MAGIC
    /\ le32toh(SubSeq(file.bytes, 33, 36)) \in ShapeTypes
    /\ ~HeaderLengthTooShort(be16toh(SubSeq(file.bytes, 27, 28)) * 65536
                               + Low16(be16toh(SubSeq(file.bytes, 25, 26))))

\* C12: when <prefix>.shx is missing or its header is rejected, <prefix>.shp
\* is never opened or read, the consumer is never invoked and
\* shapefile_parse_cb returns false; and the consumer is invoked only when
\* both headers were accepted and both files are open.
C12_ShxFirst ==
    /\ ~HeaderAccepted(shxFile) =>
        /\ "shp" \notin openFiles
        /\ shp_f = "NULL"
        /\ shpPos = 0
        /\ cbLog = <<>>
        /\ pc \in {"parse_shx", "returned", "freed", "crashed"}
        /\ (Returned => result = "false")
    /\ cbLog # <<>> =>
        /\ HeaderAccepted(shxFile)
        /\ HeaderAccepted(shpFile)
        /\ header.code = SHAPEFILE_HEADER_MAGIC
        /\ shapefile_type_valid(header.type)
        /\ "shp" \in openFiles

\* a .shx with a wrong magic number beside a good .shp
C12_Witness ==
    /\ pc = "freed"
    /\ shxFile.exists
    /\ ~HeaderAccepted(shxFile)
    /\ HeaderAccepted(shpFile)
    /\ error.kind = "Header magic number is invalid"
    /\ result = "false"
    /\ openFiles = {}

(***************************************************************************)
(* Claims about the pure decoders (checked under SpecPure).                *)
(***************************************************************************)
SizeApplied == fnIn.op = "shapefile_read_int32_size_be" /\ fnOut.done

\* C5: on four readable bytes the split big-endian reader succeeds, takes the
\* first 16-bit big-endian word as the low half and the second as the high
\* half, returns (high << 16) | (low & 0xFFFF) - 131073 for 00 01 00 02 - and
\* its result differs from the plain 32-bit big-endian value of the same
\* bytes whenever the two words differ.
C5_SplitRead ==
    (SizeApplied /\ Len(fnIn.bytes) = 4) =>
        LET b == fnIn.bytes
            first == b[1] * 256 + b[2]
            second == b[3] * 256 + b[4]
        IN  /\ fnOut.ok
            /\ fnOut.value = Int16(second) * 65536 + first
            /\ (b = <<0, 1, 0, 2>> => fnOut.value = 131073)
            /\ (first # second => fnOut.value # Int32OfBytes(b[1], b[2], b[3], b[4]))

C5_Witness ==
    /\ SizeApplied
    /\ fnIn.bytes = <<0, 1, 0, 2>>
    /\ fnOut.ok
    /\ fnOut.value = 131073

\* a header read to its last byte
HeaderApplied ==
    fnIn.op = "shapefile_read_header" /\ fnOut.done /\ Len(fnIn.bytes) >= SHAPEFILE_HEADER_SIZE

\* C6: a fully readable header whose magic code is not 0x0000270a fails with
\* the bad-magic error, whatever its length, version, shape type and doubles.
C6_BadMagic ==
    (HeaderApplied /\ fnIn.fields.code # SHAPEFILE_HEADER_MAGIC) =>
        /\ ~fnOut.ok
        /\ fnOut.error = Err("Header magic number is invalid", fnIn.fields.code, 0)

C6_Witness ==
    /\ HeaderApplied
    /\ fnIn.fields.code # SHAPEFILE_HEADER_MAGIC
    /\ ~shapefile_type_valid(fnIn.fields.type)
    /\ fnIn.fields.length = 99
    /\ fnOut.error.kind = "Header magic number is invalid"

\* C7 as stated: a fully readable header whose shape type is not one of the 14
\* values fails with the bad-shape-type error whatever the other fields hold.
C7_BadTypeAlways ==
    (HeaderApplied /\ fnIn.fields.type \notin ShapeTypes) =>
        /\ ~fnOut.ok
        /\ fnOut.error.kind = "Header Type is invalid"

\* C7 amended: such a header always fails; the error is the bad-shape-type one
\* when the magic code is 0x0000270a (whatever the length, version and doubles
\* hold), and the bad-magic one otherwise.
C7_BadType ==
    (HeaderApplied /\ fnIn.fields.type \notin ShapeTypes) =>
        /\ ~fnOut.ok
        /\ fnOut.error =
             IF fnIn.fields.code = SHAPEFILE_HEADER_MAGIC
             THEN Err("Header Type is invalid", fnIn.fields.type, 0)
             ELSE Err("Header magic number is invalid", fnIn.fields.code, 0)

C7_Witness ==
    /\ HeaderApplied
    /\ fnIn.fields.code = SHAPEFILE_HEADER_MAGIC
    /\ fnIn.fields.type = 2
    /\ fnIn.fields.length = 99
    /\ fnOut.error.kind = "Header Type is invalid"

\* the header bytes without the five reserved words (bytes 5..24)
ExceptReserved(b) == SubSeq(b, 1, 4) \o SubSeq(b, 25, Len(b))

\* C8: decoding a valid 100-byte header and encoding the decoded fields again
\* gives back the bytes that were read, the reserved words aside.
C8_RoundTrip ==
    (HeaderApplied /\ fnOut.ok) =>
        ExceptReserved(EncodeHeader(fnOut.header)) = ExceptReserved(fnIn.bytes)

\* the path without the extension of its final component: the part after the
\* last '/' is cut at its last '.', if it has one
WithoutExtension(path) ==
    LET slash == strrchr(path, "/")
        dot == strrchr(path, ".")
    IN  IF dot > slash THEN SubSeq(path, 1, dot - 1) ELSE path

\* C13: the prefix is the path without the extension of its final component,
\* and the path itself when the final component has none, also when a
\* directory of the path contains a '.'.
C13_TrailingExtension ==
    (fnIn.op = "path_prefix" /\ fnOut.done) => fnOut.prefix = WithoutExtension(fnIn.path)

(***************************************************************************)
(* alist (src/src/alist.h): the array list the hash table keeps in each    *)
(* bucket.  Its implementation is not among the sources; the operators     *)
(* follow the contract its header documents.  A list is the sequence of    *)
(* its items, index 0 first.                                               *)
(***************************************************************************)
alist_init == <<>>

alist_size(list) == Len(list)

Mutant_alist_add_prepends(list, data) == <<data>> \o list

alist_add(list, data) == Append(list, data)

\* NULL for an index that is not below the size
alist_get(list, index) == IF index >= Len(list) THEN 0 ELSE list[index + 1]

Mutant_alist_remove_moves_last(list, index) ==
    IF index >= Len(list) THEN list
    ELSE SubSeq([list EXCEPT ![index + 1] = list[Len(list)]], 1, Len(list) - 1)

\* the list after alist_remove, which returns alist_get(list, index): the
\* items after index are shifted down by one; nothing changes for an index
\* that is not below the size
alist_remove(list, index) ==
    IF index >= Len(list) THEN list
    ELSE SubSeq(list, 1, index) \o SubSeq(list, index + 2, Len(list))

ALIST_CAPACITY_INITIAL == 256

\* the capacity after an item is added to a list of this size and capacity:
\* room for ALIST_CAPACITY_INITIAL items at the first addition, doubled
\* whenever more room is needed
alist_capacity(size, capacity) ==
    IF size < capacity THEN capacity
    ELSE IF capacity = 0 THEN ALIST_CAPACITY_INITIAL
    ELSE capacity * 2

(***************************************************************************)
(* The hash table (src/src/hash.c).  A key is the sequence of its          *)
(* character codes, a data pointer is a number, 0 for NULL.  A hash_t is   *)
(*   buckets   the array of lists, indexed 0 .. capacity - 1               *)
(*   valid     FALSE when hash->buckets is NULL or points to freed memory  *)
(*   size, capacity                                                        *)
(* An operation returns [hash, ret, crashed]: the table after it, its      *)
(* return value, and whether it divided by zero or dereferenced an invalid *)
(* pointer instead of returning.                                           *)
(***************************************************************************)
\* code = ((code << 5) + code) + c on an unsigned int kept as two 16-bit halves
Djb2Step(code, c) ==
    Bind(code.lo * 33 + c, LAMBDA lo :
        [hi |-> (code.hi * 33 + lo \div 65536) % 65536, lo |-> lo % 65536])

RECURSIVE Djb2(_, _, _)
Djb2(key, i, code) ==
    IF i > Len(key) THEN code ELSE Djb2(key, i + 1, Djb2Step(code, key[i]))

\* HASH_DJB2: code = 5381, then one step per character; code % capacity, for a
\* capacity that is not 0
hash_code(capacity, key) ==
    Bind(Djb2(key, 1, [hi |-> 0, lo |-> 5381]), LAMBDA code :
        ((code.hi % capacity) * (65536 % capacity) + code.lo) % capacity)

HashResult(h, ret, crashed) == [hash |-> h, ret |-> ret, crashed |-> crashed]

\* ok is whether calloc and every alist_init succeed
hash_create(h, capacity, ok) ==
    IF ok
    THEN HashResult([h EXCEPT !.capacity = capacity, !.valid = TRUE,
                              !.buckets = [i \in 0 .. capacity - 1 |-> alist_init]],
                    TRUE, FALSE)
    ELSE HashResult([h EXCEPT !.capacity = capacity, !.valid = FALSE, !.buckets = <<>>],
                    FALSE, FALSE)

\* hash_init_ex(capacity) when its allocations succeed
hash_init_ex(capacity) ==
    hash_create([buckets |-> <<>>, valid |-> FALSE, size |-> 0, capacity |-> 0],
                capacity, TRUE).hash

hash_init == hash_init_ex(0)

\* the items in the order hash_foreach visits them: bucket by bucket, each
\* bucket from its index 0
\* (the items of buckets first .. last, computed by halves)
RECURSIVE ItemsOfBuckets(_, _, _)
ItemsOfBuckets(buckets, first, last) ==
    IF first > last THEN <<>>
    ELSE IF first = last THEN buckets[first]
    ELSE Bind((first + last) \div 2, LAMBDA mid :
            ItemsOfBuckets(buckets, first, mid) \o ItemsOfBuckets(buckets, mid + 1, last))

HashItems(h) == IF h.valid THEN ItemsOfBuckets(h.buckets, 0, h.capacity - 1) ELSE <<>>

\* hash_foreach with an iterate_func that returns true n times and then false
hash_foreach(h, n) == HashResult(h, Len(HashItems(h)) <= n, FALSE)

\* the index of the first item of the list whose key is key, or -1
FirstIndexOf(list, key) ==
    IF \E i \in DOMAIN list : list[i].key = key
    THEN (CHOOSE i \in DOMAIN list :
            list[i].key = key /\ \A j \in DOMAIN list : list[j].key = key => i <= j) - 1
    ELSE -1

\* what may fail in a hash_set: nothing, the creation of the buckets, the
\* rehash, the allocation of the item or of its key, alist_add
SetFailures == {"none", "create", "rehash", "item", "add"}

RECURSIVE hash_set(_, _, _, _)
RECURSIVE hash_foreach_rehash_func(_, _, _, _)

\* hash_foreach(hash, hash_rehash_func, tmp): the items first .. last are set
\* in tmp one after the other (computed by halves)
hash_foreach_rehash_func(items, first, last, tmp) ==
    IF first > last THEN tmp
    ELSE IF first = last
         THEN hash_set(tmp, items[first].key, items[first].data, "none").hash
    ELSE Bind((first + last) \div 2, LAMBDA mid :
            Bind(hash_foreach_rehash_func(items, first, mid, tmp), LAMBDA half :
                hash_foreach_rehash_func(items, mid + 1, last, half)))

\* hash_rehash keeping the old capacity with the new buckets
Mutant_hash_rehash_keeps_capacity(h, ok) ==
    IF ~ok THEN HashResult(h, FALSE, FALSE)
    ELSE Bind(Bind(HashItems(h), LAMBDA items :
                hash_foreach_rehash_func(items, 1, Len(items),
                                         hash_init_ex(h.capacity * 2))),
              LAMBDA tmp :
            HashResult([h EXCEPT !.buckets = tmp.buckets, !.size = tmp.size],
                       TRUE, FALSE))

\* ok is whether hash_init_ex and every hash_set into tmp succeed; when one
\* fails tmp is freed and the table is left as it was
hash_rehash(h, ok) ==
    IF ~ok THEN HashResult(h, FALSE, FALSE)
    ELSE Bind(Bind(HashItems(h), LAMBDA items :
                hash_foreach_rehash_func(items, 1, Len(items),
                                         hash_init_ex(h.capacity * 2))),
              LAMBDA tmp :
            HashResult([h EXCEPT !.buckets = tmp.buckets, !.size = tmp.size,
                                 !.capacity = tmp.capacity],
                       TRUE, FALSE))

hash_set(h, key, data, fail) ==
    Bind(IF h.capacity = 0 THEN hash_create(h, 512, fail # "create")
         ELSE IF 2 * h.size >= h.capacity THEN hash_rehash(h, fail # "rehash")
         ELSE HashResult(h, TRUE, FALSE),
         LAMBDA g :
        IF ~g.ret THEN g
        ELSE IF fail = "item" THEN HashResult(g.hash, FALSE, FALSE)
        ELSE IF ~g.hash.valid
             THEN \* hash->buckets[code] of a NULL or freed array
                  HashResult(g.hash, FALSE, TRUE)
        ELSE IF fail = "add" THEN HashResult(g.hash, FALSE, FALSE)
        ELSE Bind(hash_code(g.hash.capacity, key), LAMBDA code :
                HashResult([g.hash EXCEPT
                               !.buckets[code] = alist_add(@, [key |-> key, data |-> data]),
                               !.size = @ + 1],
                           TRUE, FALSE)))

hash_size(h) == HashResult(h, h.size, FALSE)

hash_get(h, key) ==
    IF h.capacity = 0 THEN HashResult(h, 0, FALSE)
    ELSE IF ~h.valid THEN HashResult(h, 0, TRUE)
    ELSE Bind(h.buckets[hash_code(h.capacity, key)], LAMBDA list :
            Bind(FirstIndexOf(list, key), LAMBDA i :
                IF i >= 0 THEN HashResult(h, alist_get(list, i).data, FALSE)
                ELSE HashResult(h, 0, FALSE)))

hash_contains(h, key) ==
    Bind(hash_get(h, key), LAMBDA g :
        IF g.crashed THEN g ELSE HashResult(h, g.ret # 0, FALSE))

\* hash_delete without the --hash->size of line 291
Mutant_hash_delete_keeps_size(h, key) ==
    IF h.capacity = 0 \/ ~h.valid THEN HashResult(h, 0, TRUE)
    ELSE Bind(hash_code(h.capacity, key), LAMBDA code :
            Bind(FirstIndexOf(h.buckets[code], key), LAMBDA i :
                IF i >= 0
                THEN HashResult([h EXCEPT !.buckets[code] = alist_remove(@, i)],
                                alist_get(h.buckets[code], i).data, FALSE)
                ELSE HashResult(h, 0, FALSE)))

\* hash_code is called first and divides by hash->capacity: with capacity 0
\* the division is by zero
hash_delete(h, key) ==
    IF h.capacity = 0 \/ ~h.valid THEN HashResult(h, 0, TRUE)
    ELSE Bind(hash_code(h.capacity, key), LAMBDA code :
            Bind(FirstIndexOf(h.buckets[code], key), LAMBDA i :
                IF i >= 0
                THEN HashResult([h EXCEPT !.buckets[code] = alist_remove(@, i),
                                          !.size = @ - 1],
                                alist_get(h.buckets[code], i).data, FALSE)
                ELSE HashResult(h, 0, FALSE)))

\* data = hash_delete(hash, key); if (data == NULL) return false;
hash_delete_func(h, key) ==
    Bind(hash_delete(h, key), LAMBDA d :
        IF d.crashed THEN d ELSE HashResult(d.hash, d.ret # 0, FALSE))

(***************************************************************************)
(* SpecHash: one hash table, from hash_init or hash_init_ex on.  In mode   *)
(* "small" a few keys, two of which have the same hash code, are set,      *)
(* looked up and deleted in any order; in mode "bulk" a table from         *)
(* hash_init is filled key after key until its 512 buckets are rehashed.   *)
(***************************************************************************)
MaxBulk == 258

\* "a", "b", and "ab" and "bA", whose DJB2 codes are equal
SmallKeys == {<<97>>, <<98>>, <<97, 98>>, <<98, 65>>}

\* the i-th key of the bulk run: a letter A.. and a letter a..z
BulkKey(i) == <<65 + (i \div 26), 97 + (i % 26)>>

HashEnvs ==
    {[mode |-> "small", capacity |-> c, lowMemory |-> low] :
        c \in {0, 1, 2}, low \in BOOLEAN}
    \cup {[mode |-> "bulk", capacity |-> 0, lowMemory |-> FALSE]}

HashCall(op, key, r) == [op |-> op, key |-> key, ret |-> r.ret, crashed |-> r.crashed]

StoredKeys == {kd.key : kd \in hashStored}

\* the keys a call may be given
KeysToSet ==
    IF hashEnv.mode = "small" THEN SmallKeys \ StoredKeys
    ELSE IF Cardinality(hashStored) < MaxBulk THEN {BulkKey(Cardinality(hashStored))}
    ELSE {}

KeysToFind ==
    IF hashEnv.mode = "small" THEN SmallKeys
    ELSE {BulkKey(0), BulkKey(Cardinality(hashStored))}

HashInit ==
    /\ IdleParse
    /\ IdleBuffer
    /\ IdleLib
    /\ fnIn = [op |-> "none"]
    /\ fnOut = NotApplied
    /\ hashEnv \in HashEnvs
    /\ hash = hash_init_ex(hashEnv.capacity)
    /\ hashRet = [op |-> "hash_init", key |-> <<>>, ret |-> 0, crashed |-> FALSE]
    /\ hashStored = {}

HashUnchanged == UNCHANGED <<parseVars, pureVars, bufferVars, libVars, hashEnv>>

HashSet ==
    /\ ~hashRet.crashed
    /\ \E key \in KeysToSet, data \in (IF hashEnv.mode = "small" THEN {0, 1} ELSE {1}),
          fail \in (IF hashEnv.lowMemory THEN SetFailures ELSE {"none"}) :
        \E r \in {hash_set(hash, key, data, fail)} :
            /\ hash' = r.hash
            /\ hashRet' = HashCall("hash_set", key, r)
            /\ hashStored' = IF r.ret THEN hashStored \cup {[key |-> key, data |-> data]}
                                      ELSE hashStored
    /\ HashUnchanged

HashGet ==
    /\ ~hashRet.crashed
    /\ \E key \in KeysToFind :
        \E r \in {hash_get(hash, key)} :
            /\ hash' = r.hash
            /\ hashRet' = HashCall("hash_get", key, r)
    /\ UNCHANGED hashStored
    /\ HashUnchanged

HashContains ==
    /\ ~hashRet.crashed
    /\ \E key \in KeysToFind :
        \E r \in {hash_contains(hash, key)} :
            /\ hash' = r.hash
            /\ hashRet' = HashCall("hash_contains", key, r)
    /\ UNCHANGED hashStored
    /\ HashUnchanged

HashDelete ==
    /\ ~hashRet.crashed
    /\ hashEnv.mode = "small"
    /\ \E key \in KeysToFind :
        \E r \in {hash_delete(hash, key)} :
            /\ hash' = r.hash
            /\ hashRet' = HashCall("hash_delete", key, r)
            /\ hashStored' = IF r.crashed THEN hashStored
                             ELSE {kd \in hashStored : kd.key # key}
    /\ HashUnchanged

HashDeleteFunc ==
    /\ ~hashRet.crashed
    /\ hashEnv.mode = "small"
    /\ \E key \in KeysToFind :
        \E r \in {hash_delete_func(hash, key)} :
            /\ hash' = r.hash
            /\ hashRet' = HashCall("hash_delete_func", key, r)
            /\ hashStored' = IF r.crashed THEN hashStored
                             ELSE {kd \in hashStored : kd.key # key}
    /\ HashUnchanged

\* hash_foreach with a function that stops at the first item, or never
HashForeach ==
    /\ ~hashRet.crashed
    /\ hash.valid
    /\ \E n \in {0, hash.size} :
        \E r \in {hash_foreach(hash, n)} :
            /\ hash' = r.hash
            /\ hashRet' = HashCall("hash_foreach", <<>>, r)
    /\ UNCHANGED hashStored
    /\ HashUnchanged

HashSize ==
    /\ ~hashRet.crashed
    /\ \E r \in {hash_size(hash)} :
        /\ hash' = r.hash
        /\ hashRet' = HashCall("hash_size", <<>>, r)
    /\ UNCHANGED hashStored
    /\ HashUnchanged

HashNext ==
    \/ HashSet
    \/ HashGet
    \/ HashContains
    \/ HashDelete
    \/ HashDeleteFunc
    \/ HashForeach
    \/ HashSize

SpecHash == HashInit /\ [][HashNext]_vars

(***************************************************************************)
(* Claims about the hash table (checked under SpecHash).                   *)
(***************************************************************************)
\* every key a call may be given, stored or not
KnownKeys == SmallKeys \cup StoredKeys \cup {BulkKey(Cardinality(hashStored))}

\* C16: when no allocation fails, hash_get returns for every key that was set
\* and not deleted the data set for it, and NULL for every other key, also
\* after the creation of the 512 buckets and after rehashes.
C16_GetReturnsStored ==
    ~hashEnv.lowMemory =>
        /\ \A kd \in hashStored :
            \E r \in {hash_get(hash, kd.key)} : r.ret = kd.data /\ ~r.crashed
        /\ \A key \in KnownKeys \ StoredKeys :
            \E r \in {hash_get(hash, key)} : r.ret = 0 /\ ~r.crashed

\* the 512 buckets of hash_init's table were rehashed into 1024
C16_Witness ==
    /\ hashEnv.mode = "bulk"
    /\ hash.capacity = 1024
    /\ hash.size = MaxBulk
    /\ hashRet.op = "hash_get"
    /\ hashRet.key = BulkKey(0)
    /\ hashRet.ret = 1

\* hash_size is the number of items in the buckets, and the number of keys
\* set and not deleted
SizeIsCount ==
    /\ hash_size(hash).ret = Len(HashItems(hash))
    /\ hash_size(hash).ret = Cardinality(hashStored)

\* what the call just made did to the size
SizeStep ==
    hash'.size =
        CASE hashRet'.op = "hash_set" -> hash.size + (IF hashRet'.ret THEN 1 ELSE 0)
          [] hashRet'.op \in {"hash_delete", "hash_delete_func"} ->
                hash.size - (IF hashRet'.key \in StoredKeys THEN 1 ELSE 0)
          [] OTHER -> hash.size

\* C17: hash_size is always the number of items stored in the buckets; a
\* successful hash_set adds exactly 1 to it, a hash_delete or hash_delete_func
\* of a stored key takes exactly 1 off, and failed sets, misses, gets,
\* hash_contains and hash_foreach leave it as it is, also across a rehash.
C17_SizeCounts == []SizeIsCount /\ [][SizeStep]_vars

\* a table rehashed up to 8 buckets, after the deletion of one of its 4 keys
C17_Witness ==
    /\ hash.capacity = 8
    /\ hash.size = 3
    /\ hashRet.op = "hash_delete"
    /\ hashRet.key \in SmallKeys
    /\ ~hashRet.crashed
    /\ Cardinality(hashStored) = 3

\* the data set for a stored key
StoredData(key) == (CHOOSE kd \in hashStored : kd.key = key).data

\* C18: hash_delete returns; for a stored key it returns the data set for it
\* and the size goes down by one, for any other key it returns NULL and
\* leaves the table as it was - in every state after hash_init or
\* hash_init_ex, a table of capacity 0 included.
C18_Delete ==
    [][hashRet'.op = "hash_delete" =>
          /\ ~hashRet'.crashed
          /\ IF hashRet'.key \in StoredKeys
             THEN hashRet'.ret = StoredData(hashRet'.key) /\ hash'.size = hash.size - 1
             ELSE hashRet'.ret = 0 /\ hash' = hash]_vars

\* C19: hash_contains returns true exactly for the keys set and not deleted,
\* and hash_delete_func returns true exactly when the key was found, whatever
\* data is stored for the key, a NULL pointer included.
C19_Found ==
    [][hashRet'.op \in {"hash_contains", "hash_delete_func"} =>
          /\ ~hashRet'.crashed
          /\ hashRet'.ret = (hashRet'.key \in StoredKeys)]_vars

(***************************************************************************)
(* buffer.c: a growable byte buffer.  struct buffer_t is a record; data is *)
(* the allocation (null, or the bytes of its capacity), flags are the two  *)
(* booleans secure and free_memory.                                        *)
(***************************************************************************)
\* the value of a byte of an allocation that nothing has written yet
Indeterminate == 0 - 1

\* malloc(n): n bytes nothing has written
malloc(n) == [null |-> FALSE, bytes |-> [i \in 1..n |-> Indeterminate]]

\* memcpy(dst + at, src, Len(src)) into the allocation dst
memcpy(dst, at, src) ==
    [null |-> dst.null,
     bytes |-> [i \in 1..Len(dst.bytes) |->
                   IF i > at /\ i <= at + Len(src) THEN src[i - at] ELSE dst.bytes[i]]]

BufferResult(b, ret) == [buffer |-> b, ret |-> ret]

\* the failures of one call: no failure, a failed malloc/realloc, a failed mlock
BufferFailures == {"none", "alloc", "mlock"}

\* buffer_init_ex with its allocations succeeding (a failed one returns NULL:
\* there is no buffer to call anything on)
buffer_init_ex(capacity) ==
    [data |-> IF capacity > 0 THEN malloc(capacity) ELSE [null |-> TRUE, bytes |-> <<>>],
     capacity |-> capacity, len |-> 0, secure |-> FALSE, free_memory |-> FALSE]

buffer_init == buffer_init_ex(0)

buffer_set_secure(b, value, fail) ==
    IF ~b.data.null /\ value /\ fail = "mlock"
    THEN BufferResult(b, FALSE)
    ELSE BufferResult([b EXCEPT !.secure = value], TRUE)

buffer_length(b) == b.len

buffer_data(b) == b.data

Mutant_buffer_grow_secure_drops_content(b, new_capacity, fail) ==
    IF fail \in {"alloc", "mlock"}
    THEN BufferResult(b, FALSE)
    ELSE BufferResult([b EXCEPT !.data = malloc(new_capacity), !.capacity = new_capacity],
                      TRUE)

buffer_grow_secure(b, new_capacity, fail) ==
    IF fail \in {"alloc", "mlock"}
    THEN BufferResult(b, FALSE)
    ELSE BufferResult([b EXCEPT !.data = memcpy(malloc(new_capacity), 0,
                                                SubSeq(b.data.bytes, 1, b.len)),
                                !.capacity = new_capacity],
                      TRUE)

\* realloc keeps the bytes of the old allocation (new_capacity is never smaller)
buffer_grow_insecure(b, new_capacity, fail) ==
    IF fail = "alloc"
    THEN BufferResult(b, FALSE)
    ELSE BufferResult([b EXCEPT !.data = memcpy(malloc(new_capacity), 0, b.data.bytes),
                                !.capacity = new_capacity],
                      TRUE)

\* buffer_grow without the len * 2 of line 179
Mutant_buffer_grow_doubles_only(b, len, fail) ==
    LET new_capacity == IF b.capacity = 0 THEN len * 4 ELSE b.capacity * 2
    IN  IF b.secure THEN buffer_grow_secure(b, new_capacity, fail)
        ELSE buffer_grow_insecure(b, new_capacity, fail)

buffer_grow(b, len, fail) ==
    LET new_capacity == IF b.capacity = 0 THEN len * 4
                        ELSE (b.capacity * 2) + (len * 2)
    IN  IF b.secure THEN buffer_grow_secure(b, new_capacity, fail)
        ELSE buffer_grow_insecure(b, new_capacity, fail)

\* buffer_write(buffer, data, len) with len = Len(data)
buffer_write(b, data, fail) ==
    LET len == Len(data)
        grown == IF b.len + len > b.capacity THEN buffer_grow(b, len, fail)
                 ELSE BufferResult(b, TRUE)
    IN  IF ~grown.ret
        THEN BufferResult(b, FALSE)
        ELSE BufferResult([grown.buffer EXCEPT
                               !.data = memcpy(grown.buffer.data, b.len, data),
                               !.len = b.len + len],
                          TRUE)

\* memset(dst + at, 0, n) inside the allocation dst
memset(dst, at, n) ==
    [null |-> dst.null,
     bytes |-> [i \in 1..Len(dst.bytes) |->
                   IF i > at /\ i <= at + n THEN 0 ELSE dst.bytes[i]]]

\* memmove(dst, dst + at, n): byte i of the allocation becomes byte at + i; a
\* byte read from beyond the allocation has no defined value
memmove(dst, at, n) ==
    [null |-> dst.null,
     bytes |-> [i \in 1..Len(dst.bytes) |->
                   IF i <= n
                   THEN IF at + i <= Len(dst.bytes) THEN dst.bytes[at + i]
                        ELSE Indeterminate
                   ELSE dst.bytes[i]]]

\* what a call that reads or writes beyond the allocation may do
OutOfBoundsOutcomes == {"returns", "crashes"}

buffer_set_free_memory(b, value) == [b EXCEPT !.free_memory = value]

\* buffer_remove(buffer, n): the memmove reads len bytes from data + len and a
\* secure buffer's memset writes len bytes at data + len; both leave the
\* allocation when 2 * len > capacity, and then the call does what ub says
buffer_remove(b, n, ub) ==
    LET len == IF n > b.len THEN b.len ELSE n
        moved == memmove(b.data, len, len)
        after == IF b.secure THEN memset(moved, len, len) ELSE moved
    IN  IF len > 0
        THEN IF 2 * len > b.capacity /\ ub = "crashes"
             THEN [buffer |-> b, ret |-> len, crashed |-> TRUE]
             ELSE [buffer |-> [b EXCEPT !.data = after, !.len = b.len - len],
                   ret |-> len, crashed |-> FALSE]
        ELSE [buffer |-> b, ret |-> len, crashed |-> FALSE]

buffer_clear(b) ==
    IF b.data.null
    THEN b
    ELSE IF b.free_memory
         THEN [b EXCEPT !.data = [null |-> TRUE, bytes |-> <<>>], !.capacity = 0, !.len = 0]
         ELSE [b EXCEPT !.data = IF b.secure THEN memset(b.data, 0, b.capacity) ELSE b.data,
                        !.len = 0]

(***************************************************************************)
(* SpecBuffer: a buffer from buffer_init_ex, then calls in any order.      *)
(***************************************************************************)
\* the most bytes the calls write in all
MaxWritten == 7

\* the most bytes the calls write in all when bytes are removed as well
MaxEdited == 4

\* the byte strings a buffer_write may be given
WriteSamples == {<<>>, <<1>>, <<2, 3>>, <<4, 5, 6>>}

\* "write": buffer_write, buffer_set_secure and buffer_length, allocations
\* failing or not; "edit": every call, allocations succeeding
BufferEnvs ==
    {[mode |-> "write", capacity |-> c, lowMemory |-> low] : c \in {0, 1, 4}, low \in BOOLEAN}
    \cup {[mode |-> "edit", capacity |-> 0, lowMemory |-> FALSE]}

BufferInit ==
    /\ IdleParse
    /\ IdleHash
    /\ IdleLib
    /\ fnIn = [op |-> "none"]
    /\ fnOut = NotApplied
    /\ bufferEnv \in BufferEnvs
    /\ buffer = buffer_init_ex(bufferEnv.capacity)
    /\ bufferRet = [op |-> "buffer_init_ex"]
    /\ bufferLog = [written |-> <<>>, onlyWrites |-> TRUE, total |-> 0]

BufferUnchanged == UNCHANGED <<parseVars, pureVars, hashVars, libVars, bufferEnv>>

FailuresNow == IF bufferEnv.lowMemory THEN BufferFailures ELSE {"none"}

\* a call that crashed is the last call
BufferCrashed == bufferRet.op = "buffer_remove" /\ bufferRet.crashed

BufferWrite ==
    /\ ~BufferCrashed
    /\ \E data \in WriteSamples, fail \in FailuresNow :
        /\ bufferLog.total + Len(data) <=
              (IF bufferEnv.mode = "write" THEN MaxWritten ELSE MaxEdited)
        /\ \E r \in {buffer_write(buffer, data, fail)} :
            /\ buffer' = r.buffer
            /\ bufferRet' = [op |-> "buffer_write", data |-> data, ret |-> r.ret]
            /\ bufferLog' = IF r.ret
                            THEN [bufferLog EXCEPT !.written = bufferLog.written \o data,
                                                   !.total = bufferLog.total + Len(data)]
                            ELSE bufferLog
    /\ BufferUnchanged

BufferSetSecure ==
    /\ ~BufferCrashed
    /\ \E value \in BOOLEAN, fail \in FailuresNow :
        \E r \in {buffer_set_secure(buffer, value, fail)} :
            /\ buffer' = r.buffer
            /\ bufferRet' = [op |-> "buffer_set_secure", value |-> value, ret |-> r.ret]
    /\ UNCHANGED bufferLog
    /\ BufferUnchanged

BufferLength ==
    /\ ~BufferCrashed
    /\ bufferRet' = [op |-> "buffer_length", ret |-> buffer_length(buffer)]
    /\ UNCHANGED <<buffer, bufferLog>>
    /\ BufferUnchanged

BufferSetFreeMemory ==
    /\ bufferEnv.mode = "edit"
    /\ ~BufferCrashed
    /\ \E value \in BOOLEAN :
        /\ buffer' = buffer_set_free_memory(buffer, value)
        /\ bufferRet' = [op |-> "buffer_set_free_memory", value |-> value]
    /\ UNCHANGED bufferLog
    /\ BufferUnchanged

BufferRemove ==
    /\ bufferEnv.mode = "edit"
    /\ ~BufferCrashed
    /\ \E n \in 0..(buffer.len + 1), ub \in OutOfBoundsOutcomes :
        \E r \in {buffer_remove(buffer, n, ub)} :
            /\ buffer' = r.buffer
            /\ bufferRet' = [op |-> "buffer_remove", n |-> n, ret |-> r.ret,
                             crashed |-> r.crashed]
            /\ bufferLog' = IF r.ret > 0 THEN [bufferLog EXCEPT !.onlyWrites = FALSE]
                            ELSE bufferLog
    /\ BufferUnchanged

BufferClear ==
    /\ bufferEnv.mode = "edit"
    /\ ~BufferCrashed
    /\ buffer' = buffer_clear(buffer)
    /\ bufferRet' = [op |-> "buffer_clear"]
    /\ bufferLog' = IF buffer.data.null THEN bufferLog
                    ELSE [bufferLog EXCEPT !.written = <<>>, !.onlyWrites = TRUE]
    /\ BufferUnchanged

BufferNext ==
    \/ BufferWrite
    \/ BufferSetSecure
    \/ BufferLength
    \/ BufferSetFreeMemory
    \/ BufferRemove
    \/ BufferClear

SpecBuffer == BufferInit /\ [][BufferNext]_vars

(***************************************************************************)
(* Claims about the buffer (checked under SpecBuffer).                     *)
(***************************************************************************)
\* the buffer's content: the first buffer_length bytes at buffer_data
BufferContent ==
    [i \in 1..buffer_length(buffer) |->
        IF i <= Len(buffer_data(buffer).bytes) THEN buffer_data(buffer).bytes[i]
        ELSE Indeterminate]

WritesAppended ==
    bufferLog.onlyWrites =>
        /\ buffer_length(buffer) = Len(bufferLog.written)
        /\ BufferContent = bufferLog.written
        /\ buffer.len <= buffer.capacity

WriteStep ==
    bufferRet'.op = "buffer_write" =>
        IF bufferRet'.ret
        THEN /\ buffer_length(buffer') = buffer_length(buffer) + Len(bufferRet'.data)
             /\ BufferContent' = BufferContent \o bufferRet'.data
        ELSE /\ buffer_length(buffer') = buffer_length(buffer)
             /\ BufferContent' = BufferContent

\* C20: after any sequence of successful buffer_write calls, growth from
\* capacity 0 and repeated growth included, secure or not, buffer_length is
\* the sum of the written lengths and the content is the written byte
\* strings in call order; a failed write leaves length and content unchanged.
C20_WriteAppends == []WritesAppended /\ [][WriteStep]_vars

\* a secure buffer that started at capacity 0, grew twice, and holds three writes
C20_Witness ==
    /\ bufferEnv.capacity = 0
    /\ buffer.secure
    /\ buffer.capacity = 12
    /\ bufferLog.written = <<1, 4, 5, 6, 2, 3>>
    /\ bufferRet.op = "buffer_write"
    /\ bufferRet.ret

\* C21: buffer_remove(buffer, n) returns m = min(n, length), the length goes
\* down by m, and the content is the old content without its first m bytes,
\* for every n and every content, secure or not.
C21_RemoveDropsPrefix ==
    [][bufferRet'.op = "buffer_remove" =>
          /\ ~bufferRet'.crashed
          /\ bufferRet'.ret = (IF bufferRet'.n > buffer_length(buffer)
                               THEN buffer_length(buffer) ELSE bufferRet'.n)
          /\ buffer_length(buffer') = buffer_length(buffer) - bufferRet'.ret
          /\ BufferContent' = SubSeq(BufferContent, bufferRet'.ret + 1,
                                     buffer_length(buffer))]_vars

\* the bytes of the allocation outside the content
UnusedBytes ==
    {buffer_data(buffer).bytes[i] : i \in (buffer_length(buffer) + 1)..buffer.capacity}

\* C22: in a secure buffer, after every buffer_write, buffer_remove and
\* buffer_clear, every byte of the allocation outside the content is zero.
C22_UnusedIsZero ==
    (buffer.secure /\ bufferRet.op \in {"buffer_write", "buffer_remove", "buffer_clear"}) =>
        /\ ~BufferCrashed
        /\ UnusedBytes \subseteq {0}

(***************************************************************************)
(* queue.c: a queue kept as a doubly linked list.  A node pointer is the   *)
(* node's address, 0 for NULL; queueNodes gives the queue_node_t at each   *)
(* address, live from its malloc to its free (the fields of a freed node   *)
(* mean nothing, and are kept as FreedNode).  A data pointer is a number,  *)
(* 0 for NULL.  An operation returns [queue, nodes, ret].                  *)
(***************************************************************************)
FreedNode == [data |-> 0, next |-> 0, prev |-> 0, live |-> FALSE]

QueueResult(q, nodes, ret) == [queue |-> q, nodes |-> nodes, ret |-> ret]

queue_init == [head |-> 0, tail |-> 0, size |-> 0]

queue_size(q) == q.size

\* node is what malloc returned: the address of a node that is not live, or 0
queue_push(q, nodes, data, node) ==
    IF node = 0
    THEN QueueResult(q, nodes, FALSE)
    ELSE IF q.head = 0
         THEN QueueResult([head |-> node, tail |-> node, size |-> q.size + 1],
                          [nodes EXCEPT ![node] = [data |-> data, next |-> 0, prev |-> 0,
                                                   live |-> TRUE]],
                          TRUE)
         ELSE QueueResult([head |-> q.head, tail |-> node, size |-> q.size + 1],
                          [nodes EXCEPT ![node] = [data |-> data, next |-> 0,
                                                   prev |-> q.tail, live |-> TRUE],
                                        ![q.tail].next = node],
                          TRUE)

Mutant_queue_pop_returns_tail(q, nodes) ==
    IF q.head = 0
    THEN QueueResult(q, nodes, 0)
    ELSE LET node == q.head
         IN  IF nodes[node].next = 0
             THEN QueueResult([head |-> 0, tail |-> 0, size |-> q.size - 1],
                              [nodes EXCEPT ![node] = FreedNode],
                              nodes[q.tail].data)
             ELSE QueueResult([head |-> nodes[node].next, tail |-> q.tail,
                               size |-> q.size - 1],
                              [nodes EXCEPT ![node].prev = 0, ![node] = FreedNode],
                              nodes[q.tail].data)

\* node->prev = NULL is written to the node being popped, which is then freed
queue_pop(q, nodes) ==
    IF q.head = 0
    THEN QueueResult(q, nodes, 0)
    ELSE LET node == q.head
             data == nodes[q.head].data
         IN  IF nodes[node].next = 0
             THEN QueueResult([head |-> 0, tail |-> 0, size |-> q.size - 1],
                              [nodes EXCEPT ![node] = FreedNode],
                              data)
             ELSE QueueResult([head |-> nodes[node].next, tail |-> q.tail,
                               size |-> q.size - 1],
                              [nodes EXCEPT ![node].prev = 0, ![node] = FreedNode],
                              data)

queue_peek(q, nodes) == IF q.head = 0 THEN 0 ELSE nodes[q.head].data

queue_peek_back(q, nodes) == IF q.tail = 0 THEN 0 ELSE nodes[q.tail].data

(***************************************************************************)
(* SpecQueue: a queue from queue_init, then calls in any order.            *)
(***************************************************************************)
\* the most pushes of a run
MaxPushes == 4

\* the most nodes queued at a time
MaxQueued == 3

\* the addresses malloc returns
NodeAddresses == 1..MaxQueued

\* the data pointers pushed: NULL and two others
QueueValues == {0, 1, 2}

QueueInit ==
    /\ IdleParse
    /\ IdleHash
    /\ IdleBuffer
    /\ IdleAlist
    /\ IdleLock
    /\ fnIn = [op |-> "none"]
    /\ fnOut = NotApplied
    /\ queueEnv = [mode |-> "run", lowMemory |-> TRUE]
    /\ queue = queue_init
    /\ queueNodes = [a \in NodeAddresses |-> FreedNode]
    /\ queueRet = [op |-> "queue_init"]
    /\ queueLog = [pushed |-> <<>>, popped |-> <<>>, returned |-> <<>>]

QueueUnchanged ==
    UNCHANGED <<parseVars, pureVars, hashVars, bufferVars, alistVars, lockVars, queueEnv>>

\* what malloc may return: any address that holds no live node, or NULL when
\* memory is short
MallocNode ==
    {a \in NodeAddresses : ~queueNodes[a].live}
    \cup (IF queueEnv.lowMemory THEN {0} ELSE {})

QueuePush ==
    /\ Len(queueLog.pushed) < MaxPushes
    /\ \E data \in QueueValues, node \in MallocNode :
        \E r \in {queue_push(queue, queueNodes, data, node)} :
            /\ queue' = r.queue
            /\ queueNodes' = r.nodes
            /\ queueRet' = [op |-> "queue_push", data |-> data, ret |-> r.ret]
            /\ queueLog' = IF r.ret
                           THEN [queueLog EXCEPT !.pushed = Append(queueLog.pushed, data)]
                           ELSE queueLog
    /\ QueueUnchanged

QueuePop ==
    /\ \E r \in {queue_pop(queue, queueNodes)} :
        /\ queue' = r.queue
        /\ queueNodes' = r.nodes
        /\ queueRet' = [op |-> "queue_pop", ret |-> r.ret]
        /\ queueLog' =
              [queueLog EXCEPT
                  !.popped = IF queue.size > 0 THEN Append(queueLog.popped, r.ret)
                             ELSE queueLog.popped,
                  !.returned = IF r.ret # 0 THEN Append(queueLog.returned, r.ret)
                               ELSE queueLog.returned]
    /\ QueueUnchanged

QueuePeek ==
    /\ queueRet' = [op |-> "queue_peek", ret |-> queue_peek(queue, queueNodes)]
    /\ UNCHANGED <<queue, queueNodes, queueLog>>
    /\ QueueUnchanged

QueuePeekBack ==
    /\ queueRet' = [op |-> "queue_peek_back", ret |-> queue_peek_back(queue, queueNodes)]
    /\ UNCHANGED <<queue, queueNodes, queueLog>>
    /\ QueueUnchanged

QueueSize ==
    /\ queueRet' = [op |-> "queue_size", ret |-> queue_size(queue)]
    /\ UNCHANGED <<queue, queueNodes, queueLog>>
    /\ QueueUnchanged

QueueNext ==
    \/ QueuePush
    \/ QueuePop
    \/ QueuePeek
    \/ QueuePeekBack
    \/ QueueSize

SpecQueue == QueueInit /\ [][QueueNext]_vars

(***************************************************************************)
(* Claims about the queue (checked under SpecQueue).                       *)
(***************************************************************************)
IsPrefix(s, u) == Len(s) <= Len(u) /\ SubSeq(u, 1, Len(s)) = s

\* the pushed values still queued when taken is the sequence of values taken out
StillQueued(taken) == SubSeq(queueLog.pushed, Len(taken) + 1, Len(queueLog.pushed))

\* the queue is first in, first out, when taken is the sequence of values taken out
FifoOf(taken) ==
    /\ IsPrefix(taken, queueLog.pushed)
    /\ queue_size(queue) = Len(queueLog.pushed) - Len(taken)
    /\ Len(taken) <= Len(queueLog.pushed) =>
          /\ queue_peek(queue, queueNodes) =
                (IF StillQueued(taken) = <<>> THEN 0 ELSE Head(StillQueued(taken)))
          /\ queue_peek_back(queue, queueNodes) =
                (IF StillQueued(taken) = <<>> THEN 0
                 ELSE StillQueued(taken)[Len(StillQueued(taken))])
    /\ queue_peek(queue, queueNodes) = queue_pop(queue, queueNodes).ret

\* C23 as stated: the non-NULL values returned by queue_pop are a prefix of
\* the pushed values in push order, queue_peek returns what the next pop will
\* return, queue_peek_back the most recently pushed value still queued, and
\* queue_size is the pushes that succeeded minus the pops that returned a value.
C23_FifoNonNull == FifoOf(queueLog.returned)

\* C23, amended: the values returned by the queue_pop calls made on a
\* non-empty queue, a pushed NULL among them, are a prefix of the pushed
\* values in push order; queue_peek returns what the next pop will return,
\* queue_peek_back the most recently pushed value still queued, and
\* queue_size is the pushes that succeeded minus the pops made on a
\* non-empty queue.
C23_Fifo == FifoOf(queueLog.popped)

\* four values were pushed, more than there are addresses, so that a freed
\* node's address was used again; three were popped and the fourth is queued
C23_Witness ==
    /\ queueLog.pushed = <<1, 2, 1, 2>>
    /\ queueLog.popped = <<1, 2, 1>>
    /\ queueRet.op = "queue_pop"
    /\ queueRet.ret = 1
    /\ queue_size(queue) = 1

(***************************************************************************)
(* SpecAlist: an array list from alist_init.  In mode "small" a few items  *)
(* are added, read and removed at any index, in any order; in mode "bulk"  *)
(* MaxItems items are added, then removed from the front one by one.       *)
(***************************************************************************)
\* the number of items of the bulk list: past the capacities 256, 512 and 1024
MaxItems == 1026

\* the most items added in mode "small"
MaxSmallItems == 3

\* the i-th item added (i from 0): a data pointer that is not NULL
ItemNumber(i) == i + 1

AlistInit ==
    /\ IdleParse
    /\ IdleHash
    /\ IdleBuffer
    /\ IdleQueue
    /\ IdleLock
    /\ fnIn = [op |-> "none"]
    /\ fnOut = NotApplied
    /\ alistEnv \in {[mode |-> "small"], [mode |-> "bulk"]}
    /\ alist = [items |-> alist_init, capacity |-> 0]
    /\ alistRet = [op |-> "alist_init"]
    /\ alistLog = [added |-> <<>>, removed |-> <<>>, onlyFront |-> TRUE]

AlistUnchanged ==
    UNCHANGED <<parseVars, pureVars, hashVars, bufferVars, queueVars, lockVars, alistEnv>>

\* the indexes a call may be given
AlistIndexes ==
    IF alistEnv.mode = "small" THEN 0..(alist_size(alist.items) + 1)
    ELSE {0, alist_size(alist.items) - 1, alist_size(alist.items)} \ {0 - 1}

\* alist_add returns false, and changes nothing, when memory is short
AlistAdd ==
    /\ Len(alistLog.added) < (IF alistEnv.mode = "small" THEN MaxSmallItems ELSE MaxItems)
    /\ alistEnv.mode = "bulk" => alistLog.removed = <<>>
    /\ \E ok \in (IF alistEnv.mode = "small" THEN BOOLEAN ELSE {TRUE}) :
        \E data \in {ItemNumber(Len(alistLog.added))} :
            /\ alist' = IF ok
                        THEN [items |-> alist_add(alist.items, data),
                              capacity |-> alist_capacity(alist_size(alist.items),
                                                          alist.capacity)]
                        ELSE alist
            /\ alistRet' = [op |-> "alist_add", index |-> 0, ret |-> IF ok THEN 1 ELSE 0]
            /\ alistLog' = IF ok
                           THEN [alistLog EXCEPT !.added = Append(alistLog.added, data)]
                           ELSE alistLog
    /\ AlistUnchanged

AlistGet ==
    /\ \E index \in AlistIndexes :
        alistRet' = [op |-> "alist_get", index |-> index,
                     ret |-> alist_get(alist.items, index)]
    /\ UNCHANGED <<alist, alistLog>>
    /\ AlistUnchanged

AlistSize ==
    /\ alistRet' = [op |-> "alist_size", index |-> 0, ret |-> alist_size(alist.items)]
    /\ UNCHANGED <<alist, alistLog>>
    /\ AlistUnchanged

AlistRemove ==
    /\ alistEnv.mode = "bulk" => Len(alistLog.added) = MaxItems
    /\ \E index \in (IF alistEnv.mode = "small" THEN AlistIndexes
                     ELSE {0, alist_size(alist.items)}) :
        /\ alist' = [alist EXCEPT !.items = alist_remove(alist.items, index)]
        /\ alistRet' = [op |-> "alist_remove", index |-> index,
                        ret |-> alist_get(alist.items, index)]
        /\ alistLog' =
              IF index >= alist_size(alist.items) THEN alistLog
              ELSE [alistLog EXCEPT
                       !.removed = Append(alistLog.removed, alist_get(alist.items, index)),
                       !.onlyFront = alistLog.onlyFront /\ index = 0]
    /\ AlistUnchanged

AlistNext ==
    \/ AlistAdd
    \/ AlistGet
    \/ AlistSize
    \/ AlistRemove

SpecAlist == AlistInit /\ [][AlistNext]_vars

(***************************************************************************)
(* Claims about the array list (checked under SpecAlist).                  *)
(***************************************************************************)
\* C24: after n items were added to a new list, alist_size is n and
\* alist_get(list, i) is the i-th item added, for every 0 <= i < n, for small
\* n and for n past the first capacity of 256 and its doublings.
C24_AddedInOrder ==
    alistLog.removed = <<>> =>
        /\ alist_size(alist.items) = Len(alistLog.added)
        /\ \A i \in 0..(Len(alistLog.added) - 1) :
              alist_get(alist.items, i) = alistLog.added[i + 1]
        /\ alist_size(alist.items) <= alist.capacity
        /\ (alistRet.op = "alist_get" /\ alistRet.index < Len(alistLog.added)) =>
              alistRet.ret = ItemNumber(alistRet.index)

\* 1025 items were added, which doubled the capacity three times, and the last
\* one was read
C24_Witness ==
    /\ alistLog.removed = <<>>
    /\ Len(alistLog.added) = 1025
    /\ alist.capacity = 8 * ALIST_CAPACITY_INITIAL
    /\ alistRet.op = "alist_get"
    /\ alistRet.index = 1024
    /\ alistRet.ret = ItemNumber(1024)

RemovedInOrder ==
    alistLog.onlyFront =>
        /\ IsPrefix(alistLog.removed, alistLog.added)
        /\ alist.items = SubSeq(alistLog.added, Len(alistLog.removed) + 1,
                                Len(alistLog.added))
        /\ alist_size(alist.items) = Len(alistLog.added) - Len(alistLog.removed)

RemoveStep ==
    alistRet'.op = "alist_remove" =>
        IF alistRet'.index >= alist_size(alist.items)
        THEN alistRet'.ret = 0 /\ alist' = alist
        ELSE /\ alist_size(alist'.items) = alist_size(alist.items) - 1
             /\ \A i \in 0..(alist_size(alist'.items) - 1) :
                   alist_get(alist'.items, i) =
                       alist_get(alist.items, IF i < alistRet'.index THEN i ELSE i + 1)

DiskLength(file) ==
    be16toh(SubSeq(file.bytes, 27, 28)) * 65536 + Low16(be16toh(SubSeq(file.bytes, 25, 26)))

\* C26: for a file that declares W 16-bit words the budget of the record loop
\* starts at 2 * W - 100 bytes, so that a file of B bytes of records that
\* declares (100 + B) / 2 words is read until its B bytes are consumed.
C26_BudgetInBytes ==
    shpFile \in WordFiles =>
        /\ (pc = "loop" /\ iteration = 0) =>
              length = 2 * DiskLength(shpFile) - SHAPEFILE_HEADER_SIZE
        /\ (Returned /\ Nominal /\ ConsumerSaidContinue) =>
              /\ result = "true"
              /\ shpPos = Len(shpFile.bytes)

\* C27: a header whose decoded length is less than 100 is rejected with the
\* too-short error, a negative length included, and any other length is
\* accepted (the header being fully readable, its magic and shape type valid).
C27_RejectsShort ==
    (HeaderApplied /\ fnIn.fields.code = SHAPEFILE_HEADER_MAGIC
        /\ shapefile_type_valid(fnIn.fields.type)) =>
        IF fnIn.fields.length < SHAPEFILE_HEADER_SIZE
        THEN /\ ~fnOut.ok
             /\ fnOut.error = Err("Size in header cannot be less than header size",
                                  fnIn.fields.length, SHAPEFILE_HEADER_SIZE)
        ELSE fnOut.ok

(***************************************************************************)
(* Claims about a header the stream ends in (checked under SpecPure).      *)
(***************************************************************************)
\* the sizes of the fread calls a field is read with
FreadSizes(kind) ==
    CASE kind = "int32_size_be" -> <<2, 2>>
      [] kind = "double_le" -> <<8>>
      [] OTHER -> <<4>>

\* the fread that comes up short when the stream holds avail bytes, field i
\* starting at offset start: the field, the size asked for and the count read
RECURSIVE FirstShortRead(_, _, _)
FirstShortRead(avail, i, start) ==
    LET sizes == FreadSizes(HeaderLayout[i][1])
        total == IF Len(sizes) = 2 THEN sizes[1] + sizes[2] ELSE sizes[1]
    IN  IF start + total <= avail THEN FirstShortRead(avail, i + 1, start + total)
        ELSE IF start + sizes[1] > avail
             THEN [field |-> i, len |-> sizes[1], count |-> avail - start]
             ELSE [field |-> i, len |-> sizes[2], count |-> avail - start - sizes[1]]

HeaderCutShort ==
    fnIn.op = "shapefile_read_header" /\ fnOut.done /\ Len(fnIn.bytes) < SHAPEFILE_HEADER_SIZE

\* C28: when the stream ends before the 100th byte of the header,
\* shapefile_read_header fails with the short-read error of the first field
\* that could not be read; no field after it is read, and the error is never
\* that of a validation, whatever the fields that were read hold.
C28_ShortHeader ==
    HeaderCutShort =>
        LET short == FirstShortRead(Len(fnIn.bytes), 1, 0)
        IN  /\ ~fnOut.ok
            /\ fnOut.error = Err("Error reading", short.len, short.count)
            /\ fnOut.pos = Len(fnIn.bytes)
            /\ \A i \in short.field..Len(HeaderLayout) :
                  fnOut.header[HeaderLayout[i][2]] = ZeroHeader[HeaderLayout[i][2]]

\* the stream ends inside the length field of a header whose magic number is
\* wrong: the error is the short read of the second half of the length
C28_Witness ==
    /\ HeaderCutShort
    /\ Len(fnIn.bytes) = 26
    /\ fnIn.fields.code # SHAPEFILE_HEADER_MAGIC
    /\ fnOut.error = Err("Error reading", 2, 0)
    /\ fnOut.header.code = fnIn.fields.code
    /\ fnOut.header.length = 0

(***************************************************************************)
(* Claims about the records the decoder refuses (checked under Spec).      *)
(***************************************************************************)
\* the shape type the stream holds where it stands
TagAtStream == le32toh(SubSeq(shpFile.bytes, shpPos + 1, shpPos + 4))

InvalidTagError == "Shape type in record is not valid"

\* shapefile_read_shp_record on a record whose type is outside the enumeration
InvalidTagStep ==
    (/\ pc = "record"
     /\ pc' # "record"
     /\ shpPos + 4 <= Len(shpFile.bytes)
     /\ ~shapefile_type_valid(TagAtStream)) =>
        /\ pc' = "exit"
        /\ ~success'
        /\ error' = Err(InvalidTagError, TagAtStream, record_header.number)
        /\ shpPos' = shpPos + 4
        /\ liveShapes' = liveShapes
        /\ record'.shape = record.shape
        /\ cbLog' = cbLog

InvalidTagRejected ==
    error.kind = InvalidTagError =>
        /\ pc \in {"exit", "returned", "freed"}
        /\ ~success
        /\ Returned => result = "false"
        /\ cb = "consumer" => Len(cbLog) = iteration - 1

\* C29: a record whose shape type is outside the enumeration is rejected with
\* the invalid-shape-type error before dispatch: no shape is made or released
\* for it, no byte after its 4-byte type is read, the consumer is not invoked
\* for it, and the parse fails.
C29_InvalidTag == []InvalidTagRejected /\ [][InvalidTagStep]_vars

\* the second record of a file has an invalid type: the first was delivered,
\* the parse returned false
C29_Witness ==
    /\ Returned
    /\ cb = "consumer"
    /\ error = Err(InvalidTagError, InvalidTag, 2)
    /\ iteration = 2
    /\ Len(cbLog) = 1
    /\ result = "false"

\* C30: when the allocation of a record's shape fails, shapefile_parse_cb
\* returns false with the out-of-memory error: the NULL shape is never given
\* to the consumer, never dereferenced and never released.
C30_ShapeOutOfMemory ==
    /\ \A i \in DOMAIN cbLog : cbLog[i].shape.ptr # "NULL"
    /\ record.shape.ptr = "NULL" =>
          /\ pc \in {"exit", "returned", "freed"}
          /\ ~success
          /\ error = Err("Out of memory", 0, 0)


\* the states of shapefile_parse_shp's record loop
InRecordLoop == pc \in {"loop", "record", "callback"}

\* the budget the loop starts from (line 447)
InitialBudget == WrapSub32(header.length, SHAPEFILE_HEADER_SIZE)

\* C31: in every state of the record loop 0 <= length <= the initial budget
\* (stated for the headers whose length is at least the header size, whose
\* initial budget is not negative)
C31_BudgetNeverNegative ==
    InRecordLoop /\ header.length >= SHAPEFILE_HEADER_SIZE =>
        /\ 0 <= length
        /\ length <= InitialBudget


\* a step of shapefile_read_shp_record that decodes a record consumes, after
\* the 8-byte record header, the bytes its header declares (in 16-bit words)
DeclaredLengthStep ==
    pc = "record" /\ pc' = "callback" =>
        shpPos' - shpPos = 2 * record_header.length

\* C32: for every successfully decoded record the bytes consumed after the
\* record header equal the declared content length, converted from words to
\* bytes; a record that disagrees is not accepted
C32_DeclaredLength == [][DeclaredLengthStep]_vars


(***************************************************************************)
(* SpecLive: a session whose caller and consumer always go on: every call  *)
(* that can take its next step does so.                                    *)
(***************************************************************************)
SpecLive == Spec /\ WF_vars(Next)

\* an iteration that neither fails nor stops takes at least 12 bytes from the
\* budget: 8 for the record header, at least 4 for the record
BudgetStep ==
    /\ pc = "loop" /\ pc' = "record" => length' <= length - 8
    /\ pc = "record" /\ pc' = "callback" => length' <= length - 4

\* C33: shapefile_parse_cb terminates: every iteration of the record loop
\* fails, stops or takes at least 12 bytes from the budget, and a call that
\* has reached the loop returns true or false
C33_Terminates == [][BudgetStep]_vars /\ (pc = "loop" ~> result # "none")


\* every stored key is found in h with the data it was set with
AllRetrievable(h) ==
    \A kd \in hashStored :
        \E g \in {hash_get(h, kd.key)} : ~g.crashed /\ g.ret = kd.data

\* a hash_set that returns false leaves the size, the capacity and what the
\* stored keys retrieve as they were
FailedSetStep ==
    hashRet'.op = "hash_set" /\ ~hashRet'.crashed /\ ~hashRet'.ret =>
        /\ hash'.size = hash.size
        /\ hash'.capacity = hash.capacity
        /\ AllRetrievable(hash')

\* C34: a hash_set that fails returns false and leaves the table unchanged:
\* same size, same capacity, every stored key retrievable with its data
C34_FailedSetUnchanged == [][FailedSetStep]_vars


\* the length is within the capacity, the allocation is as large as the
\* capacity, and there is an allocation when the capacity is not 0
WithinCapacity ==
    /\ buffer.len <= buffer.capacity
    /\ Len(buffer.data.bytes) = buffer.capacity
    /\ buffer.capacity > 0 => ~buffer_data(buffer).null

\* a buffer_write that succeeds has, for its copy, a capacity of at least the
\* old length plus the written length
RoomForWrite ==
    bufferRet'.op = "buffer_write" /\ bufferRet'.ret =>
        buffer'.capacity >= buffer.len + Len(bufferRet'.data)

\* C35: in every reachable buffer state length <= capacity and data is not
\* NULL when capacity > 0; the capacity buffer_grow chooses is at least
\* length + len before the copy of buffer_write, also after a buffer_clear
\* with free-memory on has reset the capacity to 0
C35_WithinCapacity == []WithinCapacity /\ [][RoomForWrite]_vars

\* a write of 1 byte grew the buffer to 4; buffer_clear with free-memory on
\* released it; a write of 2 bytes grew it from capacity 0 to 8
C35_Witness ==
    /\ bufferEnv.mode = "edit"
    /\ buffer.free_memory
    /\ bufferLog.total = 3
    /\ bufferLog.written = <<2, 3>>
    /\ bufferRet.op = "buffer_write"
    /\ bufferRet.ret
    /\ buffer.capacity = 8
    /\ buffer.len = 2


\* the addresses of the nodes from node a on, following next, at most k of them
RECURSIVE NodesFrom(_, _)
NodesFrom(a, k) ==
    IF a = 0 \/ k = 0 THEN {}
    ELSE {a} \cup NodesFrom(queueNodes[a].next, k - 1)

\* the nodes reachable from queue->head
QueuedNodes == NodesFrom(queue.head, MaxQueued)

\* C36: after any sequence of queue_push and queue_pop the list is well
\* formed: head is NULL iff tail is NULL iff size is 0; head->prev and
\* tail->next are NULL; n->next->prev == n for every node with a successor;
\* no reachable node has been freed; size is the number of reachable nodes
C36_WellFormed ==
    /\ (queue.head = 0) = (queue.tail = 0)
    /\ (queue.head = 0) = (queue.size = 0)
    /\ queue.head # 0 =>
          /\ queueNodes[queue.head].prev = 0
          /\ queueNodes[queue.tail].next = 0
    /\ \A n \in QueuedNodes :
          /\ queueNodes[n].live
          /\ queueNodes[n].next # 0 => queueNodes[queueNodes[n].next].prev = n
    /\ queue.size = Cardinality(QueuedNodes)


(***************************************************************************)
(* lock.c: lock_t wraps the platform's reader/writer lock.  The rwlock is  *)
(* [writer, readers]: the thread that holds it exclusively (0 for none)    *)
(* and the threads that hold it shared.  An acquiring operation returns    *)
(* [lock, acquired]; a call that did not acquire stays blocked in the      *)
(* operation and tries again.                                              *)
(***************************************************************************)
LockResult(l, acquired) == [lock |-> l, acquired |-> acquired]

\* pthread_rwlock_init, InitializeSRWLock
lock_init == [writer |-> 0, readers |-> {}]

\* a shared acquisition: granted when no thread holds the lock exclusively
pthread_rwlock_rdlock(l, t) ==
    IF l.writer = 0 THEN LockResult([l EXCEPT !.readers = @ \cup {t}], TRUE)
    ELSE LockResult(l, FALSE)

\* an exclusive acquisition: granted when no thread holds the lock
pthread_rwlock_wrlock(l, t) ==
    IF l.writer = 0 /\ l.readers = {} THEN LockResult([l EXCEPT !.writer = t], TRUE)
    ELSE LockResult(l, FALSE)

\* releases what the calling thread holds
pthread_rwlock_unlock(l, t) ==
    IF l.writer = t THEN [l EXCEPT !.writer = 0] ELSE [l EXCEPT !.readers = @ \ {t}]

AcquireSRWLockShared(l, t) ==
    IF l.writer = 0 THEN LockResult([l EXCEPT !.readers = @ \cup {t}], TRUE)
    ELSE LockResult(l, FALSE)

AcquireSRWLockExclusive(l, t) ==
    IF l.writer = 0 /\ l.readers = {} THEN LockResult([l EXCEPT !.writer = t], TRUE)
    ELSE LockResult(l, FALSE)

ReleaseSRWLockShared(l, t) == [l EXCEPT !.readers = @ \ {t}]

ReleaseSRWLockExclusive(l, t) == [l EXCEPT !.writer = 0]

\* the POSIX branch calls pthread_rwlock_wrlock
lock_read_lock(build, l, t) ==
    IF build = "win32" THEN AcquireSRWLockShared(l, t) ELSE pthread_rwlock_wrlock(l, t)

lock_read_unlock(build, l, t) ==
    IF build = "win32" THEN ReleaseSRWLockShared(l, t) ELSE pthread_rwlock_unlock(l, t)

\* the POSIX branch calls pthread_rwlock_rdlock
lock_write_lock(build, l, t) ==
    IF build = "win32" THEN AcquireSRWLockExclusive(l, t) ELSE pthread_rwlock_rdlock(l, t)

lock_write_unlock(build, l, t) ==
    IF build = "win32" THEN ReleaseSRWLockExclusive(l, t) ELSE pthread_rwlock_unlock(l, t)

(***************************************************************************)
(* SpecLock: threads that take and release one lock_t.  A thread is idle,  *)
(* blocked in lock_read_lock or lock_write_lock ("in_read_lock",           *)
(* "in_write_lock"), or holds the lock through one of them ("read",        *)
(* "write") until it calls the matching unlock.                            *)
(***************************************************************************)
\* the number of threads
MaxThreads == 3

Threads == 1..MaxThreads

LockBuilds == {"posix", "win32"}

LockInit ==
    /\ IdleParse
    /\ IdleHash
    /\ IdleBuffer
    /\ IdleQueue
    /\ IdleAlist
    /\ fnIn = [op |-> "none"]
    /\ fnOut = NotApplied
    /\ \E build \in LockBuilds : lockEnv = [mode |-> "run", build |-> build]
    /\ lock = lock_init
    /\ lockThreads = [t \in Threads |-> "idle"]

LockUnchanged ==
    UNCHANGED <<parseVars, pureVars, hashVars, bufferVars, queueVars, alistVars, lockEnv>>

LockReadLock ==
    /\ \E t \in Threads :
        /\ lockThreads[t] \in {"idle", "in_read_lock"}
        /\ \E r \in {lock_read_lock(lockEnv.build, lock, t)} :
            /\ lock' = r.lock
            /\ lockThreads' = [lockThreads EXCEPT
                                  ![t] = IF r.acquired THEN "read" ELSE "in_read_lock"]
    /\ LockUnchanged

LockReadUnlock ==
    /\ \E t \in Threads :
        /\ lockThreads[t] = "read"
        /\ lock' = lock_read_unlock(lockEnv.build, lock, t)
        /\ lockThreads' = [lockThreads EXCEPT ![t] = "idle"]
    /\ LockUnchanged

LockWriteLock ==
    /\ \E t \in Threads :
        /\ lockThreads[t] \in {"idle", "in_write_lock"}
        /\ \E r \in {lock_write_lock(lockEnv.build, lock, t)} :
            /\ lock' = r.lock
            /\ lockThreads' = [lockThreads EXCEPT
                                  ![t] = IF r.acquired THEN "write" ELSE "in_write_lock"]
    /\ LockUnchanged

LockWriteUnlock ==
    /\ \E t \in Threads :
        /\ lockThreads[t] = "write"
        /\ lock' = lock_write_unlock(lockEnv.build, lock, t)
        /\ lockThreads' = [lockThreads EXCEPT ![t] = "idle"]
    /\ LockUnchanged

LockNext ==
    \/ LockReadLock
    \/ LockReadUnlock
    \/ LockWriteLock
    \/ LockWriteUnlock

SpecLock == LockInit /\ [][LockNext]_vars

(***************************************************************************)
(* Claims about the lock (checked under SpecLock).                         *)
(***************************************************************************)
\* the threads that hold the lock through lock_write_lock, lock_read_lock
WriteHolders == {t \in Threads : lockThreads[t] = "write"}
ReadHolders == {t \in Threads : lockThreads[t] = "read"}

\* a thread that holds the lock through lock_write_lock is its only holder
\* (so two threads hold it together only through lock_read_lock)
WriterExcludes ==
    \A t \in WriteHolders : WriteHolders \cup ReadHolders = {t}

\* C37: on the POSIX build, while a thread holds the lock through
\* lock_write_lock no other thread holds it through lock_write_lock or
\* lock_read_lock; two threads hold it together only if both acquired it
\* through lock_read_lock
C37_WriterExcludes == lockEnv.build = "posix" => WriterExcludes

====
